---- MODULE Spec2Model ----
(***************************************************************************)
(* Leave-request agent: reply resolver (GmailClient.checkForReply), run    *)
(* orchestrator (LeaveRequestAgent.runOnce / runContinuous), API server     *)
(* checks (POST /api/check, cron) and push dispatcher                       *)
(* (FirebaseService.sendNotification).                                      *)
(***************************************************************************)
EXTENDS Integers, Sequences, FiniteSets, TLC

(* ------------------------------ bounds -------------------------------- *)
MaxDate == 2       \* resolver inputs: internal dates range over 0..MaxDate
MaxMsgs == 1       \* leave requests the user sends
MaxTime == 2       \* the clock runs over 1..MaxTime (hours)
MaxRuns == 2       \* runOnce calls per agent instance
MaxAgents == 2     \* agent instances the API server constructs
MaxTimeout == 1    \* REPLY_TIMEOUT_HOURS ranges over 0..MaxTimeout
MaxInterval == 1   \* CHECK_INTERVAL_HOURS ranges over 1..MaxInterval
MaxTokens == 3     \* device tokens that can be registered
MaxSends == 2      \* sendNotification calls on one FirebaseService
MaxClients == 2    \* web clients that can attach to the event stream
MaxCount == 2      \* notifySummary: count ranges over 0..MaxCount
MaxDispatches == 2 \* calls of the NotificationService methods
MaxSubject == 4    \* classifier inputs: subjects of up to MaxSubject characters
MaxHours == 200    \* lookback window inputs: timeouts of 0..MaxHours hours

VARIABLES
    now,                  \* wall clock, in hours
    REPLY_TIMEOUT_HOURS,  \* config.js: parseInt(process.env.REPLY_TIMEOUT_HOURS || '1')
    CHECK_INTERVAL_HOURS, \* config.js: parseInt(process.env.CHECK_INTERVAL_HOURS || '24')
    mailbox,              \* per leave request: sent?, internal_date, later thread messages
    constructed,          \* LeaveRequestAgent instances that exist
    mode,                 \* how each instance is driven: "once", "continuous", "api", "cron"
    pc,                   \* where each instance's runOnce / runContinuous stands
    processedRequests,    \* this.processedRequests of each instance
    todo,                 \* leaveRequests still to be visited by the first loop
    pendingRequests,      \* pendingRequests of the run in progress
    queue,                \* pendingRequests still to be visited by the second loop
    results,              \* results of the run in progress
    runNo,                \* runOnce calls started on each instance (counted up to MaxRuns)
    waitUntil,            \* runContinuous: when the interval timer fires
    evalLog,              \* history: what the first loop saw and did, per candidate
    runAlerts,            \* history: alerts dispatched by the run in progress
    alertCount,           \* history: leave_request alerts per instance and message
    interrupted,          \* history: SIGINT was delivered to the process
    agentService,         \* this.notificationService of each instance
    dispatchReturned,     \* history: what the latest notifyPendingLeaveRequest call
                          \* returned, per instance and message ("none" before it)
    searchFailed,         \* history: messages.list rejected in the latest runOnce call
    fcmInitialized,       \* FirebaseService.initialized
    fcmTokens,            \* FirebaseService.fcmTokens, in insertion order
    fcmPc,                \* "idle", or "sending" while sendMulticast is awaited
    tokens,               \* sendNotification: const tokens = Array.from(this.fcmTokens)
    sends,                \* sendNotification calls made so far
    sendLog,              \* history: the last sendNotification call
    failedAttempt,        \* history: tokens whose latest send attempt failed
    rOriginal,   \* checkForReply: the originalEmail argument
    rThread,     \* checkForReply: response.data.messages of threads.get
    rFetchOk,    \* checkForReply: whether threads.get resolves (else it throws)
    rDetailOk,   \* checkForReply: ids for which getEmailDetails returns non-null
    rResult,     \* checkForReply: the returned boolean ("none" before the call)
    rpc,         \* checkForReply: "ready" before the call, "done" after
    rFetches,    \* history: threads.get calls made by checkForReply
    rFirstId,    \* history: originalMessageId as the call computed it ("none"
                 \* when the call did not get there)
    nsService,        \* which NotificationService is deployed: "web", "fcm", "desktop"
    isProduction,     \* NotificationService.isProduction
    nsInitialized,    \* NotificationService.initialized (the FCM-backed service)
    webClients,       \* NotificationService.webClients
    webNotifications, \* NotificationService.webNotifications (types of the records)
    dispatches,       \* NotificationService method calls made so far
    lastDispatch,     \* history: the last NotificationService method call
    clientLog,        \* history: per response object, what happened to it and the
                      \* number of client.write calls made on it
    cSubject,    \* findLeaveRequests: email.subject of the fetched message
    cKeywords,   \* findLeaveRequests: LEAVE_REQUEST_SUBJECT_KEYWORDS
    cResult,     \* findLeaveRequests: whether the message was pushed to leaveRequests
    cpc,         \* findLeaveRequests: "ready" before the call, "done" after
    daysBack,    \* runOnce: const daysBack (0 before it is computed)
    wpc          \* runOnce: "ready" before daysBack is computed, "done" after

replyVars == <<rOriginal, rThread, rFetchOk, rDetailOk, rResult, rpc, rFetches, rFirstId>>
configVars == <<REPLY_TIMEOUT_HOURS, CHECK_INTERVAL_HOURS>>
mailVars == <<now, mailbox>>
agentVars == <<constructed, mode, pc, processedRequests, todo, pendingRequests, queue,
               results, runNo, waitUntil, evalLog, runAlerts, alertCount, interrupted,
               agentService, dispatchReturned, searchFailed>>
pushVars == <<fcmInitialized, fcmTokens, fcmPc, tokens, sends, sendLog, failedAttempt>>
dispatchVars == <<nsService, isProduction, nsInitialized, webClients, webNotifications,
                  dispatches, lastDispatch, clientLog>>
classifyVars == <<cSubject, cKeywords, cResult, cpc>>
windowVars == <<daysBack, wpc>>
vars == <<configVars, mailVars, agentVars, replyVars, pushVars, dispatchVars,
          classifyVars, windowVars>>
\* what each component leaves alone
nonAgentVars == <<replyVars, pushVars, dispatchVars, classifyVars, windowVars>>
nonReplyVars == <<configVars, mailVars, agentVars, pushVars, dispatchVars, classifyVars,
                  windowVars>>
nonPushVars == <<configVars, mailVars, agentVars, replyVars, dispatchVars, classifyVars,
                 windowVars>>
nonDispatchVars == <<configVars, mailVars, agentVars, replyVars, classifyVars, windowVars>>
nonClassifyVars == <<configVars, mailVars, agentVars, replyVars, pushVars, dispatchVars,
                     windowVars>>
nonWindowVars == <<mailVars, agentVars, replyVars, pushVars, dispatchVars, classifyVars>>

(* --------------------------- text helpers ----------------------------- *)
\* Subjects are sequences of one-character strings.
Lower(c) ==
    CASE c = "R" -> "r"
      [] c = "E" -> "e"
      [] c = "F" -> "f"
      [] c = "W" -> "w"
      [] c = "D" -> "d"
      [] c = "L" -> "l"
      [] OTHER -> c

toLowerCase(s) == [i \in 1..Len(s) |-> Lower(s[i])]

startsWith(s, p) == Len(s) >= Len(p) /\ SubSeq(s, 1, Len(p)) = p

RePrefix == <<"r", "e", ":">>

Max(a, b) == IF a >= b THEN a ELSE b

\* Math.ceil(a / b) for integers a >= 0, b > 0
CeilDiv(a, b) == (a + b - 1) \div b

\* Math.max(7, Math.ceil(REPLY_TIMEOUT_HOURS / 24) + 1)
LookbackDaysMutant(timeoutHours) == Max(7, timeoutHours \div 24)

LookbackDays(timeoutHours) == Max(7, CeilDiv(timeoutHours, 24) + 1)

\* Subjects a thread message can carry ("" stands for an absent header).
SubjRe == <<"R", "E", ":", " ", "L">>
SubjPlain == <<"L", "e">>
NoSubject == <<>>
Subjects == {SubjRe, SubjPlain, NoSubject}

Senders == {"me", "boss"}

(* --------------------------- reply resolver --------------------------- *)
\* [...messages].sort((a, b) => a.internalDate - b.internalDate): a stable sort,
\* written as an insertion that places each message after those with date <= its own.
\* whether a message already placed stays in front of m: Array.prototype.sort is
\* stable, so it does unless the comparator puts m strictly before it
StaysBeforeMutant(placed, m) == placed.internalDate < m.internalDate

StaysBefore(placed, m) == placed.internalDate <= m.internalDate

RECURSIVE InsertByDate(_, _)
InsertByDate(sorted, m) ==
    IF sorted = <<>> THEN <<m>>
    ELSE IF StaysBefore(Head(sorted), m)
         THEN <<Head(sorted)>> \o InsertByDate(Tail(sorted), m)
         ELSE <<m>> \o sorted

RECURSIVE SortByDate(_)
SortByDate(messages) ==
    IF messages = <<>> THEN <<>>
    ELSE InsertByDate(SortByDate(SubSeq(messages, 1, Len(messages) - 1)),
                      messages[Len(messages)])

\* firstMessage?.id ("undefined" for an empty thread)
OriginalMessageIdMutant(messages) ==
    IF messages = <<>> THEN "undefined" ELSE SortByDate(messages)[Len(messages)].id

OriginalMessageId(messages) ==
    IF messages = <<>> THEN "undefined" ELSE SortByDate(messages)[1].id

\* msgId === originalId || msgId === originalMessageId
SkipsMessage(msgId, originalId, originalMessageId) ==
    msgId = originalId \/ msgId = originalMessageId

\* msgDate > originalDate
SentAfterMutant(msgDate, originalDate) == msgDate < originalDate

SentAfter(msgDate, originalDate) == msgDate > originalDate

\* originalFrom !== replyFrom || replySubject.startsWith('re:')
IsReplyMessageMutant(originalFrom, replyFrom, replySubject) ==
    startsWith(toLowerCase(replySubject), RePrefix)

IsReplyMessage(originalFrom, replyFrom, replySubject) ==
    originalFrom # replyFrom \/ startsWith(toLowerCase(replySubject), RePrefix)

\* `if (msgDetails)`: getEmailDetails returns null when its fetch fails
HasDetailsMutant(msgId, detailOk) == TRUE

HasDetails(msgId, detailOk) == msgId \in detailOk

\* the for-loop over messages with its early return
RECURSIVE ReplyLoop(_, _, _, _, _)
ReplyLoop(original, messages, originalMessageId, detailOk, i) ==
    IF i > Len(messages) THEN FALSE
    ELSE LET message == messages[i] IN
         IF SkipsMessage(message.id, original.id, originalMessageId)
         THEN ReplyLoop(original, messages, originalMessageId, detailOk, i + 1)
         ELSE IF /\ SentAfter(message.internalDate, original.internal_date)
                 /\ HasDetails(message.id, detailOk)
                 /\ IsReplyMessage(original.from, message.from, message.subject)
              THEN TRUE
              ELSE ReplyLoop(original, messages, originalMessageId, detailOk, i + 1)

\* value returned when threads.get throws (the catch block)
ReplyOnFetchErrorMutant == TRUE

ReplyOnFetchError == FALSE

\* GmailClient.checkForReply(originalEmail)
checkForReply(original, messages, fetchOk, detailOk) ==
    IF ~original.thread_id THEN FALSE
    ELSE IF ~fetchOk THEN ReplyOnFetchError
    ELSE ReplyLoop(original, messages, OriginalMessageId(messages), detailOk, 1)

SeqsUpTo(S, n) == UNION {[1..k -> S] : k \in 0..n}

(* ------------------------------ mailbox ------------------------------- *)
MsgIds == 1..MaxMsgs
AgentIds == 1..MaxAgents

\* main(): `new LeaveRequestAgent()`, driven once or with --continuous
MainAgent == CHOOSE a \in AgentIds : \A b \in AgentIds : a <= b

\* id of the later message in the thread of leave request m
LaterId(m) == Cardinality(DOMAIN mailbox) + m

\* what can follow a leave request in its thread: the manager's reply, or the
\* user's own follow-up
LaterKinds == {[from |-> "boss", subject |-> SubjRe], [from |-> "me", subject |-> SubjPlain]}

NoMail == [m \in MsgIds |-> [sent |-> FALSE, internal_date |-> 0, later |-> <<>>]]

\* hours the query `in:sent ... after:YYYY/MM/DD` of findLeaveRequests reaches
\* back: sinceDate is now minus daysBack days, cut to its date, so that up to a
\* day more than daysBack days is covered
WindowHoursMutant(days) == 24

WindowHours(days) == (days + 1) * 24

\* whether the store returns leave request m for that query; the store knows
\* the date of a message also when its response carries no internalDate
InWindow(m) ==
    \/ mailbox[m].internal_date = 0
    \/ now - mailbox[m].internal_date < WindowHours(LookbackDays(REPLY_TIMEOUT_HOURS))

\* messages that findLeaveRequests classifies as leave requests
Candidates == {m \in DOMAIN mailbox : mailbox[m].sent /\ InWindow(m)}

\* the record getEmailDetails builds for leave request m
Email(m) ==
    [id |-> m, thread_id |-> TRUE, internal_date |-> mailbox[m].internal_date,
     from |-> "me"]

\* response.data.messages of threads.get for the thread of leave request m
Thread(m) ==
    <<[id |-> m, internalDate |-> mailbox[m].internal_date, from |-> "me",
       subject |-> SubjPlain]>> \o mailbox[m].later

\* GmailClient.getEmailAgeHours(email)
getEmailAgeHoursMutant(email) == now - email.internal_date

getEmailAgeHours(email) ==
    IF email.internal_date = 0 THEN 0 ELSE now - email.internal_date

\* GmailClient.findLeaveRequests: searchEmails returns [] when the listing fails
\* and drops every message whose detail fetch fails
SearchResults ==
    {s \in SeqsUpTo(Candidates, Cardinality(Candidates)) :
        \A i, j \in 1..Len(s) : i # j => s[i] # s[j]}

(* --------------------------- run orchestrator ------------------------- *)
\* this.processedRequests.has(requestId)
AlreadyProcessedMutant(a, requestId) == FALSE

AlreadyProcessed(a, requestId) == requestId \in processedRequests[a]

\* hoursOld < REPLY_TIMEOUT_HOURS
WithinTimeoutMutant(hoursOld) == FALSE

WithinTimeout(hoursOld) == hoursOld < REPLY_TIMEOUT_HOURS

\* `if (hasReply)`
TreatAsRepliedMutant(hasReply) == TRUE

TreatAsReplied(hasReply) == hasReply

\* pendingRequests.length > 0
NeedsSummaryMutant(n) == n > 1

NeedsSummary(n) == n > 0

\* this.processedRequests.add(requestId)
MarkProcessedMutant(set, requestId) == set

MarkProcessed(set, requestId) == set \cup {requestId}

\* the alert that notifyPendingLeaveRequest(request, ...) dispatches
LeaveRequestAlert(requestId) == [type |-> "leave_request", id |-> requestId]

\* the alert that notifySummary(count) dispatches
SummaryAlert(count) == [type |-> "summary", count |-> count]

\* `this.notificationService = new NotificationService()`: nothing registered,
\* nothing attached, no history, `this.initialized = false`; `channels` is the
\* history of the branches its dispatches took
NewAgentService ==
    [webNotifications |-> <<>>, webClients |-> {}, fcmTokens |-> <<>>,
     initialized |-> FALSE, channels |-> {}]

\* the branch a dispatch on an agent's own service takes: `this.isProduction`
\* in the web service, `this.isProduction && this.initialized` in the FCM-backed
\* one
AgentChannel(service) ==
    IF nsService = "web" /\ isProduction THEN "web"
    ELSE IF nsService = "fcm" /\ isProduction /\ service.initialized THEN "push"
    ELSE "desktop"

\* what a dispatch does to the service it is called on: in production the web
\* service pushes the record to its webNotifications and writes to its clients
DispatchOn(service, type) ==
    [service EXCEPT
        !.webNotifications = IF nsService = "web" /\ isProduction
                             THEN Append(@, type) ELSE @,
        !.channels = @ \cup {AgentChannel(service)}]

\* `new Set()`
NewSetMutant == {1}

NewSet == {}

\* what notifyPendingLeaveRequest can return to runOnce: the web branch always
\* returns true, the platform notifier branch returns false when notifier.notify
\* fails
DispatchReturns ==
    IF nsService = "web" /\ isProduction THEN {"true"} ELSE {"true", "false"}

\* whether the two statements after `await notifyPendingLeaveRequest(...)` run:
\* the returned value is not read
CountedAsSentMutant(returned) == returned = "true"

CountedAsSent(returned) == TRUE

\* constructor: `this.processedRequests = new Set()`
OwnProcessedSetMutant(sets, a) == [b \in DOMAIN sets |-> NewSet]

OwnProcessedSet(sets, a) == [sets EXCEPT ![a] = NewSet]

NewResults(n) ==
    [checked_requests |-> n, pending_requests |-> 0, notifications_sent |-> 0,
     errors |-> <<>>]

\* where runOnce stands once the first loop has `remaining` left, the second loop
\* has `q` left and `pend` has been queued
PhaseAfter(remaining, q, pend) ==
    IF remaining # <<>> THEN "evaluating"
    ELSE IF q # <<>> THEN "notifying"
    ELSE IF NeedsSummary(Len(pend)) THEN "summarizing"
    ELSE "done"

\* runContinuous: setTimeout(resolve, CHECK_INTERVAL_HOURS * 3600 * 1000) after runOnce
StartWait(a) ==
    waitUntil' = IF pc'[a] = "done" /\ mode[a] = "continuous"
                 THEN [waitUntil EXCEPT ![a] = now + CHECK_INTERVAL_HOURS]
                 ELSE waitUntil

\* what searchEmails returns from its catch block when messages.list rejects
SearchOnErrorMutant(matches) == matches

SearchOnError(matches) == <<>>

\* runOnce up to the first loop: initialize, findLeaveRequests, results;
\* `fetched` is what the search yields when messages.list resolves (listOk)
BeginRun(a, listOk, fetched) ==
    LET leaveRequests == IF listOk THEN fetched ELSE SearchOnError(fetched) IN
    /\ searchFailed' = [searchFailed EXCEPT ![a] = ~listOk]
    /\ results' = [results EXCEPT ![a] = NewResults(Len(leaveRequests))]
    /\ todo' = [todo EXCEPT ![a] = leaveRequests]
    /\ pendingRequests' = [pendingRequests EXCEPT ![a] = <<>>]
    /\ queue' = [queue EXCEPT ![a] = <<>>]
    /\ evalLog' = [evalLog EXCEPT ![a] = <<>>]
    /\ runAlerts' = [runAlerts EXCEPT ![a] = <<>>]
    /\ runNo' = [runNo EXCEPT ![a] = IF @ < MaxRuns THEN @ + 1 ELSE @]
    /\ pc' = [pc EXCEPT ![a] = PhaseAfter(leaveRequests, <<>>, <<>>)]
    /\ StartWait(a)

\* main -> runOnce / runContinuous: a runOnce call begins on the CLI instance
RunOnce(a) ==
    /\ a \in constructed
    /\ mode[a] \in {"once", "continuous"}
    /\ runNo[a] < MaxRuns
    /\ \/ pc[a] = "idle"
       \/ pc[a] = "done" /\ mode[a] = "continuous" /\ now >= waitUntil[a]
    /\ \E authOk \in BOOLEAN :
          IF ~authOk /\ runNo[a] = 0
          THEN \* initialize() throws before the try block: runOnce rejects
               /\ pc' = [pc EXCEPT ![a] = "threw"]
               /\ runNo' = [runNo EXCEPT ![a] = @ + 1]
               /\ UNCHANGED <<results, todo, pendingRequests, queue, evalLog,
                              runAlerts, waitUntil, searchFailed>>
          ELSE /\ authOk
               /\ \E listOk \in BOOLEAN : \E fetched \in SearchResults :
                     BeginRun(a, listOk, fetched)
    /\ UNCHANGED <<dispatchReturned, agentService, interrupted, constructed, mode,
                   processedRequests, alertCount>>
    /\ UNCHANGED <<configVars, mailVars, nonAgentVars>>

\* ids of the messages that follow leave request m in its thread
LaterIds(m) == {mailbox[m].later[i].id : i \in 1..Len(mailbox[m].later)}

\* history record of one visit of the first loop: what was true of the candidate
\* (processed, overdue, resolved, laterOther), what the fetches did (fetchOk,
\* detailOk) and what the loop did (outcome, called, hasReply)
LogEntry(a, request, outcome, called, hasReply, fetchOk, detailOk) ==
    LET email == Email(request)
        thread == Thread(request) IN
    [id |-> request,
     processed |-> request \in processedRequests[a],
     overdue |-> getEmailAgeHours(email) >= REPLY_TIMEOUT_HOURS,
     resolved |-> checkForReply(email, thread, TRUE, LaterIds(request)),
     laterOther |-> {thread[i].id : i \in {j \in 1..Len(thread) :
                        /\ thread[j].internalDate > email.internal_date
                        /\ thread[j].from # email.from}},
     fetchOk |-> fetchOk,
     detailOk |-> detailOk,
     outcome |-> outcome,
     called |-> called,
     hasReply |-> hasReply]

\* one iteration of `for (const request of leaveRequests)`
Evaluate(a) ==
    /\ pc[a] = "evaluating"
    /\ LET request == Head(todo[a])
           hoursOld == getEmailAgeHours(Email(request))
           rest == Tail(todo[a]) IN
       \/ /\ AlreadyProcessed(a, request)
          /\ evalLog' = [evalLog EXCEPT ![a] =
                            Append(@, LogEntry(a, request, "processed", FALSE, FALSE, TRUE, {}))]
          /\ pc' = [pc EXCEPT ![a] = PhaseAfter(rest, pendingRequests[a], pendingRequests[a])]
          /\ UNCHANGED <<processedRequests, pendingRequests, queue, results>>
       \/ /\ ~AlreadyProcessed(a, request)
          /\ WithinTimeout(hoursOld)
          /\ evalLog' = [evalLog EXCEPT ![a] =
                            Append(@, LogEntry(a, request, "grace", FALSE, FALSE, TRUE, {}))]
          /\ pc' = [pc EXCEPT ![a] = PhaseAfter(rest, pendingRequests[a], pendingRequests[a])]
          /\ UNCHANGED <<processedRequests, pendingRequests, queue, results>>
       \/ /\ ~AlreadyProcessed(a, request)
          /\ ~WithinTimeout(hoursOld)
          /\ \E fetchOk \in BOOLEAN :
             \E detailOk \in IF fetchOk THEN SUBSET LaterIds(request) ELSE {{}} :
               LET hasReply == checkForReply(Email(request), Thread(request),
                                             fetchOk, detailOk) IN
               IF TreatAsReplied(hasReply)
               THEN /\ processedRequests' =
                          [processedRequests EXCEPT ![a] = MarkProcessed(@, request)]
                    /\ evalLog' = [evalLog EXCEPT ![a] =
                            Append(@, LogEntry(a, request, "reply", TRUE, hasReply,
                                            fetchOk, detailOk))]
                    /\ pc' = [pc EXCEPT ![a] =
                                PhaseAfter(rest, pendingRequests[a], pendingRequests[a])]
                    /\ UNCHANGED <<pendingRequests, queue, results>>
               ELSE /\ pendingRequests' = [pendingRequests EXCEPT ![a] = Append(@, request)]
                    /\ queue' = [queue EXCEPT ![a] = Append(@, request)]
                    /\ results' = [results EXCEPT ![a].pending_requests = @ + 1]
                    /\ evalLog' = [evalLog EXCEPT ![a] =
                            Append(@, LogEntry(a, request, "queued", TRUE, FALSE,
                                            fetchOk, detailOk))]
                    /\ pc' = [pc EXCEPT ![a] =
                                PhaseAfter(rest, pendingRequests'[a], pendingRequests'[a])]
                    /\ UNCHANGED processedRequests
    /\ todo' = [todo EXCEPT ![a] = Tail(@)]
    /\ StartWait(a)
    /\ UNCHANGED <<searchFailed, dispatchReturned, agentService, interrupted, constructed, mode, runNo, runAlerts, alertCount>>
    /\ UNCHANGED <<configVars, mailVars, nonAgentVars>>

\* `for (const request of pendingRequests)`: an array is iterated in the order
\* of its pushes
NextInQueueMutant(q) == q[Len(q)]

NextInQueue(q) == Head(q)

\* one iteration of `for (const request of pendingRequests)`
Notify(a) ==
    /\ pc[a] = "notifying"
    /\ LET request == NextInQueue(queue[a]) IN
       /\ runAlerts' = [runAlerts EXCEPT ![a] = Append(@, LeaveRequestAlert(request))]
       /\ alertCount' = [alertCount EXCEPT ![a][request] = @ + 1]
       /\ agentService' = [agentService EXCEPT ![a] = DispatchOn(@, "leave_request")]
       /\ \E returned \in DispatchReturns :
             /\ dispatchReturned' = [dispatchReturned EXCEPT ![a][request] = returned]
             /\ results' = [results EXCEPT ![a].notifications_sent =
                               IF CountedAsSent(returned) THEN @ + 1 ELSE @]
             /\ processedRequests' =
                   [processedRequests EXCEPT ![a] =
                       IF CountedAsSent(returned) THEN MarkProcessed(@, request) ELSE @]
    /\ queue' = [queue EXCEPT ![a] = Tail(@)]
    /\ pc' = [pc EXCEPT ![a] = PhaseAfter(<<>>, Tail(queue[a]), pendingRequests[a])]
    /\ StartWait(a)
    /\ UNCHANGED <<searchFailed, interrupted, constructed, mode, todo, pendingRequests, runNo,
                   evalLog>>
    /\ UNCHANGED <<configVars, mailVars, nonAgentVars>>

\* `if (pendingRequests.length > 0) await notifySummary(pendingRequests.length)`
Summarize(a) ==
    /\ pc[a] = "summarizing"
    /\ runAlerts' = [runAlerts EXCEPT ![a] = Append(@, SummaryAlert(Len(pendingRequests[a])))]
    /\ agentService' = [agentService EXCEPT ![a] = DispatchOn(@, "summary")]
    /\ pc' = [pc EXCEPT ![a] = "done"]
    /\ StartWait(a)
    /\ UNCHANGED <<searchFailed, dispatchReturned, interrupted, constructed, mode, processedRequests, todo,
                   pendingRequests, queue,
                   results, runNo, evalLog, alertCount>>
    /\ UNCHANGED <<configVars, mailVars, nonAgentVars>>

\* `catch (error)` of runOnce, reached when a statement of one of the two loop
\* bodies throws while `request` is handled: the error is pushed to
\* results.errors and runOnce returns. The collaborators of this repository
\* catch their own errors, so only an injected gmailClient or notification
\* service that rejects gets here.
CatchLoopError(a) ==
    /\ pc[a] \in {"evaluating", "notifying"}
    /\ LET request == IF pc[a] = "evaluating" THEN Head(todo[a]) ELSE Head(queue[a]) IN
       results' = [results EXCEPT ![a].errors =
                      Append(@, [phase |-> pc[a], request |-> request])]
    /\ todo' = [todo EXCEPT ![a] = <<>>]
    /\ queue' = [queue EXCEPT ![a] = <<>>]
    /\ pc' = [pc EXCEPT ![a] = "done"]
    /\ StartWait(a)
    /\ UNCHANGED <<searchFailed, dispatchReturned, agentService, interrupted, constructed, mode, processedRequests, pendingRequests, runNo, evalLog,
                   runAlerts, alertCount>>
    /\ UNCHANGED <<configVars, mailVars, nonAgentVars>>

\* where the process stands after the SIGINT handler that main installs in
\* continuous mode: `process.exit(0)`
AfterSigintMutant(p) == p

AfterSigint(p) == "exited"

\* Ctrl+C while the process runs with --continuous, during a scan or during the
\* interval wait
Sigint ==
    /\ mode[MainAgent] = "continuous"
    /\ ~interrupted
    /\ pc[MainAgent] \notin {"threw", "exited"}
    /\ interrupted' = TRUE
    /\ pc' = [pc EXCEPT ![MainAgent] = AfterSigint(@)]
    /\ UNCHANGED <<searchFailed, dispatchReturned, agentService, constructed, mode, processedRequests, todo, pendingRequests, queue,
                   results, runNo, waitUntil, evalLog, runAlerts, alertCount>>
    /\ UNCHANGED <<configVars, mailVars, nonAgentVars>>

(* ------------------------------ environment --------------------------- *)
\* the user sends a leave request
SendLeaveRequest(m) ==
    /\ ~mailbox[m].sent
    /\ \A k \in DOMAIN mailbox : k < m => mailbox[k].sent
    /\ mailbox' = [mailbox EXCEPT ![m] = [sent |-> TRUE, internal_date |-> now,
                                          later |-> <<>>]]
    /\ UNCHANGED <<now, configVars, nonAgentVars>>
    /\ UNCHANGED <<searchFailed, dispatchReturned, agentService, interrupted, constructed, mode, pc, processedRequests, todo, pendingRequests, queue,
                   results, runNo, waitUntil, evalLog, runAlerts, alertCount>>

\* the user sends a leave request that the store returns without internalDate:
\* getEmailDetails reads `parseInt(message.internalDate || 0)`
SendUndatedLeaveRequest(m) ==
    /\ ~mailbox[m].sent
    /\ \A k \in DOMAIN mailbox : k < m => mailbox[k].sent
    /\ mailbox' = [mailbox EXCEPT ![m] = [sent |-> TRUE, internal_date |-> 0,
                                          later |-> <<>>]]
    /\ UNCHANGED <<now, configVars, nonAgentVars>>
    /\ UNCHANGED agentVars

\* a message arrives in the thread of leave request m; it is stamped after the
\* leave request it follows, and checkForReply reads only that order
ThreadMessageArrives(m) ==
    /\ mailbox[m].sent
    /\ mailbox[m].later = <<>>
    /\ \E kind \in LaterKinds :
         mailbox' = [mailbox EXCEPT ![m].later =
                        <<[id |-> LaterId(m), internalDate |-> mailbox[m].internal_date + 1,
                           from |-> kind.from,
                           subject |-> kind.subject]>>]
    /\ UNCHANGED <<now, configVars, nonAgentVars>>
    /\ UNCHANGED <<searchFailed, dispatchReturned, agentService, interrupted, constructed, mode, pc, processedRequests, todo, pendingRequests, queue,
                   results, runNo, waitUntil, evalLog, runAlerts, alertCount>>

\* an hour passes
Tick ==
    /\ now < MaxTime
    /\ now' = now + 1
    /\ UNCHANGED <<mailbox, configVars, agentVars, nonAgentVars>>

(* ---------------------------- push dispatcher ------------------------ *)
Tokens == 1..MaxTokens

ToSet(seq) == {seq[i] : i \in 1..Len(seq)}

\* Set.prototype.add: appended unless already present
SetAdd(seq, x) == IF x \in ToSet(seq) THEN seq ELSE Append(seq, x)

\* Set.prototype.delete
SetDelete(seq, x) == SelectSeq(seq, LAMBDA y : y # x)

\* history of one sendNotification call: the registry when it started (start),
\* when the results arrived (before) and after the pruning (after), the tokens
\* that failed, and the tokens whose latest registry change while the multicast
\* call was awaited was an addFCMToken (registered) or a removeFCMToken
\* (unregistered)
NoSend == [outcome |-> "none", start |-> {}, before |-> {}, failed |-> {},
           after |-> {}, returned |-> FALSE, registered |-> {}, unregistered |-> {}]

\* FirebaseService.initialize(): true with a service account key, false without
InitializeFirebase ==
    /\ ~fcmInitialized
    /\ \E hasKey \in BOOLEAN : fcmInitialized' = hasKey
    /\ UNCHANGED <<fcmTokens, fcmPc, tokens, sends, sendLog, failedAttempt>>
    /\ UNCHANGED nonPushVars

\* FirebaseService.addFCMToken(token)
addFCMToken(token) ==
    /\ fcmTokens' = SetAdd(fcmTokens, token)
    /\ fcmTokens' # fcmTokens
    /\ failedAttempt' = failedAttempt \ {token}
    /\ sendLog' = IF fcmPc = "sending"
                  THEN [sendLog EXCEPT !.registered = @ \cup {token},
                                       !.unregistered = @ \ {token}]
                  ELSE sendLog
    /\ UNCHANGED <<fcmInitialized, fcmPc, tokens, sends>>
    /\ UNCHANGED nonPushVars

\* FirebaseService.removeFCMToken(token)
removeFCMToken(token) ==
    /\ token \in ToSet(fcmTokens)
    /\ fcmTokens' = SetDelete(fcmTokens, token)
    /\ sendLog' = IF fcmPc = "sending"
                  THEN [sendLog EXCEPT !.registered = @ \ {token},
                                       !.unregistered = @ \cup {token}]
                  ELSE sendLog
    /\ UNCHANGED <<fcmInitialized, fcmPc, tokens, sends, failedAttempt>>
    /\ UNCHANGED nonPushVars

\* `!this.initialized || this.fcmTokens.size === 0`
NothingToSendMutant == ~fcmInitialized

NothingToSend == ~fcmInitialized \/ Len(fcmTokens) = 0

\* sendNotification up to `await admin.messaging().sendMulticast(message)`
SendNotification ==
    /\ fcmPc = "idle"
    /\ sends < MaxSends
    /\ sends' = sends + 1
    /\ IF NothingToSend
       THEN /\ sendLog' = [NoSend EXCEPT !.outcome = "skipped",
                                         !.start = ToSet(fcmTokens),
                                         !.before = ToSet(fcmTokens),
                                         !.after = ToSet(fcmTokens)]
            /\ UNCHANGED <<fcmPc, tokens>>
       ELSE /\ tokens' = fcmTokens
            /\ fcmPc' = "sending"
            /\ sendLog' = [NoSend EXCEPT !.outcome = "sending",
                                         !.start = ToSet(fcmTokens)]
    /\ UNCHANGED <<fcmInitialized, fcmTokens, failedAttempt>>
    /\ UNCHANGED nonPushVars

\* response.responses.forEach: delete tokens[idx] for every failed response
RECURSIVE PruneFailedMutant(_, _, _, _)
PruneFailedMutant(registry, sent, responses, idx) ==
    IF idx > Len(sent) THEN registry
    ELSE PruneFailedMutant(SetDelete(registry, sent[idx]), sent, responses, idx + 1)

RECURSIVE PruneFailed(_, _, _, _)
PruneFailed(registry, sent, responses, idx) ==
    IF idx > Len(sent) THEN registry
    ELSE PruneFailed(IF ~responses[idx] THEN SetDelete(registry, sent[idx]) ELSE registry,
                     sent, responses, idx + 1)

\* the registry after the forEach: `this.fcmTokens.delete(failedToken)` acts on
\* the live set, not on the snapshot
RegistryAfterPruneMutant(registry, sent, responses) == PruneFailed(sent, sent, responses, 1)

RegistryAfterPrune(registry, sent, responses) == PruneFailed(registry, sent, responses, 1)

\* `return true` after the pruning: response.successCount is logged, not tested
ResultAfterMulticastMutant(successCount) == successCount > 0

ResultAfterMulticast(successCount) == TRUE

\* sendMulticast resolves with one result per token of the snapshot
MulticastReturns ==
    /\ fcmPc = "sending"
    /\ \E responses \in [1..Len(tokens) -> BOOLEAN] :
         LET failed == {tokens[i] : i \in {j \in 1..Len(tokens) : ~responses[j]}}
             failureCount == Cardinality(failed) IN
         /\ fcmTokens' = IF failureCount > 0
                         THEN RegistryAfterPrune(fcmTokens, tokens, responses)
                         ELSE fcmTokens
         /\ sendLog' = [sendLog EXCEPT !.outcome = "returned",
                                       !.before = ToSet(fcmTokens),
                                       !.failed = failed,
                                       !.after = ToSet(fcmTokens'),
                                       !.returned =
                                           ResultAfterMulticast(Len(tokens) - failureCount)]
         /\ failedAttempt' = (failedAttempt \ ToSet(tokens)) \cup failed
    /\ fcmPc' = "idle"
    /\ UNCHANGED <<fcmInitialized, tokens, sends>>
    /\ UNCHANGED nonPushVars

\* sendMulticast rejects: the catch block returns false
MulticastThrows ==
    /\ fcmPc = "sending"
    /\ sendLog' = [sendLog EXCEPT !.outcome = "threw",
                                  !.before = ToSet(fcmTokens),
                                  !.failed = ToSet(tokens),
                                  !.after = ToSet(fcmTokens),
                                  !.returned = FALSE]
    /\ failedAttempt' = failedAttempt \cup ToSet(tokens)
    /\ fcmPc' = "idle"
    /\ UNCHANGED <<fcmInitialized, fcmTokens, tokens, sends>>
    /\ UNCHANGED nonPushVars

(* ------------------------- notification dispatcher -------------------- *)
WebClientIds == 1..MaxClients

NoDispatchYet ==
    [method |-> "none", count |-> 0, channel |-> "none", result |-> "none",
     platform |-> 0, multicast |-> 0, writes |-> 0, appended |-> FALSE,
     backendFailed |-> FALSE, broadcast |-> FALSE, records |-> <<>>]

\* no response object has reached addWebClient
NoClients == [c \in WebClientIds |-> [status |-> "new", writes |-> 0]]

\* the branch the three public methods take: `this.isProduction` in the web
\* service, `this.isProduction && this.initialized` in the FCM-backed service,
\* the platform notifier otherwise
Channel ==
    IF nsService = "web" /\ isProduction THEN "web"
    ELSE IF nsService = "fcm" /\ isProduction /\ nsInitialized THEN "push"
    ELSE "desktop"

\* NotificationService.initialize() of the FCM-backed service
InitializeNotifications ==
    /\ nsService = "fcm"
    /\ ~nsInitialized
    /\ IF isProduction
       THEN \E hasKey \in BOOLEAN :
               /\ fcmInitialized' = (fcmInitialized \/ hasKey)
               /\ nsInitialized' = fcmInitialized'
       ELSE /\ nsInitialized' = TRUE
            /\ UNCHANGED fcmInitialized
    /\ UNCHANGED <<fcmTokens, fcmPc, tokens, sends, sendLog, failedAttempt>>
    /\ UNCHANGED <<nsService, isProduction, webClients, webNotifications, dispatches,
                   lastDispatch, clientLog>>
    /\ UNCHANGED nonDispatchVars

\* NotificationService.registerFCMToken(token)
registerFCMToken(token) ==
    /\ nsService = "fcm"
    /\ isProduction /\ nsInitialized
    /\ addFCMToken(token)

\* NotificationService.addWebClient(res); every connection brings a response
\* object of its own, so a client is added once
addWebClient(client) ==
    /\ nsService = "web"
    /\ clientLog[client].status = "new"
    /\ webClients' = webClients \cup {client}
    /\ clientLog' = [clientLog EXCEPT ![client].status = "attached"]
    /\ UNCHANGED <<nsService, isProduction, nsInitialized, webNotifications, dispatches,
                   lastDispatch>>
    /\ UNCHANGED <<pushVars, nonDispatchVars>>

\* res.on('close', ...) registered by addWebClient
CloseWebClient(client) ==
    /\ clientLog[client].status \in {"attached", "detached"}
    /\ webClients' = webClients \ {client}
    /\ clientLog' = [clientLog EXCEPT ![client].status = "closed"]
    /\ UNCHANGED <<nsService, isProduction, nsInitialized, webNotifications, dispatches,
                   lastDispatch>>
    /\ UNCHANGED <<pushVars, nonDispatchVars>>

\* what a method returns from its catch block when the backend fails
ResultOnBackendErrorMutant == "threw"

ResultOnBackendError == "false"

\* `if (count === 0) return true`
NoSummaryNeededMutant(count) == FALSE

NoSummaryNeeded(count) == count = 0

\* the platform notifier branch: notifier.notify inside try / catch
EmitDesktop(method, count) ==
    /\ Channel = "desktop"
    /\ \E notifierOk \in BOOLEAN :
         lastDispatch' = [NoDispatchYet EXCEPT
                             !.method = method, !.count = count, !.channel = "desktop",
                             !.result = IF notifierOk THEN "true" ELSE ResultOnBackendError,
                             !.platform = 1,
                             !.backendFailed = ~notifierOk]
    /\ UNCHANGED <<webClients, webNotifications, fcmTokens, clientLog>>

\* `this.webClients.delete(client)` in the catch block of one client.write
AfterWriteErrorMutant(clients, client) == clients

AfterWriteError(clients, client) == clients \ {client}

\* sendToWebClients(notification): forEach over the set with the try / catch
\* inside the callback; `broken` are the clients whose write throws. Yields the
\* set that is left and the clients client.write was called on.
RECURSIVE sendToWebClients(_, _, _)
sendToWebClients(clients, unvisited, broken) ==
    IF unvisited = {} THEN [clients |-> clients, written |-> {}]
    ELSE LET client == CHOOSE c \in unvisited : \A d \in unvisited : c <= d
             rest == sendToWebClients(IF client \in broken
                                      THEN AfterWriteError(clients, client)
                                      ELSE clients,
                                      unvisited \ {client}, broken) IN
         [clients |-> rest.clients, written |-> rest.written \cup {client}]

\* the web branch: webNotifications.push (not for the test record) and
\* sendToWebClients, which drops every client whose write throws
EmitWeb(method, count, type, keepsHistory) ==
    /\ Channel = "web"
    /\ \E broken \in SUBSET webClients :
         LET sent == sendToWebClients(webClients, webClients, broken) IN
         /\ webClients' = sent.clients
         /\ clientLog' = [c \in WebClientIds |->
                            [status |-> IF c \in broken THEN "detached"
                                        ELSE clientLog[c].status,
                             writes |-> IF c \in sent.written THEN clientLog[c].writes + 1
                                        ELSE clientLog[c].writes]]
         /\ lastDispatch' = [NoDispatchYet EXCEPT
                               !.method = method, !.count = count, !.channel = "web",
                               !.result = "true",
                               !.writes = Cardinality(sent.written),
                               !.appended = keepsHistory,
                               !.backendFailed = (broken # {}),
                               !.broadcast = TRUE]
    /\ webNotifications' = IF keepsHistory THEN Append(webNotifications, type)
                           ELSE webNotifications
    /\ UNCHANGED fcmTokens

\* the push branch: FirebaseService.send*Notification -> sendNotification
EmitPush(method, count) ==
    /\ Channel = "push"
    /\ IF NothingToSend
       THEN /\ lastDispatch' = [NoDispatchYet EXCEPT
                                  !.method = method, !.count = count, !.channel = "push",
                                  !.result = "false"]
            /\ UNCHANGED fcmTokens
       ELSE \E throws \in BOOLEAN : \E responses \in [1..Len(fcmTokens) -> BOOLEAN] :
              LET failureCount == Cardinality({i \in 1..Len(fcmTokens) : ~responses[i]}) IN
              /\ fcmTokens' = IF ~throws /\ failureCount > 0
                              THEN PruneFailed(fcmTokens, fcmTokens, responses, 1)
                              ELSE fcmTokens
              /\ lastDispatch' = [NoDispatchYet EXCEPT
                                    !.method = method, !.count = count, !.channel = "push",
                                    !.result = IF throws THEN ResultOnBackendError ELSE "true",
                                    !.multicast = 1,
                                    !.backendFailed = throws]
    /\ UNCHANGED <<webClients, webNotifications, clientLog>>

Emit(method, count, type, keepsHistory) ==
    \/ EmitDesktop(method, count)
    \/ EmitWeb(method, count, type, keepsHistory)
    \/ EmitPush(method, count)

\* what a method call leaves alone; at most `limit` calls are made
DispatchFrameUpTo(limit) ==
    /\ dispatches < limit
    /\ dispatches' = dispatches + 1
    /\ UNCHANGED <<nsService, isProduction, nsInitialized>>
    /\ UNCHANGED <<fcmInitialized, fcmPc, tokens, sends, sendLog, failedAttempt>>
    /\ UNCHANGED nonDispatchVars

DispatchFrame == DispatchFrameUpTo(MaxDispatches)

\* NotificationService.notifyPendingLeaveRequest(request, hoursOld, recipientEmail)
notifyPendingLeaveRequestUpTo(limit) ==
    /\ DispatchFrameUpTo(limit)
    /\ Emit("notifyPendingLeaveRequest", 0, "leave_request", TRUE)

notifyPendingLeaveRequest == notifyPendingLeaveRequestUpTo(MaxDispatches)

\* NotificationService.notifySummary(count)
notifySummaryUpTo(count, limit) ==
    /\ DispatchFrameUpTo(limit)
    /\ IF NoSummaryNeeded(count)
       THEN /\ lastDispatch' = [NoDispatchYet EXCEPT
                                  !.method = "notifySummary", !.count = count,
                                  !.channel = Channel, !.result = "true"]
            /\ UNCHANGED <<webClients, webNotifications, fcmTokens, clientLog>>
       ELSE Emit("notifySummary", count, "summary", TRUE)

notifySummary(count) == notifySummaryUpTo(count, MaxDispatches)

\* getRecentNotifications(limit = 10): the default number of records read back
RecentLimit == 10

\* Array.prototype.slice(start): a negative start counts from the end, and -0
\* is 0, the start of the array
slice(array, start) ==
    LET from == IF start < 0 THEN Max(Len(array) + start, 0)
                ELSE IF start > Len(array) THEN Len(array) ELSE start
    IN SubSeq(array, from + 1, Len(array))

\* NotificationService.getRecentNotifications(limit):
\* `return this.webNotifications.slice(-limit)`
getRecentNotifications(limit) == slice(webNotifications, -limit)

\* a caller reads the history back; at most `bound` method calls are made
ReadRecentNotifications(limit, bound) ==
    /\ DispatchFrameUpTo(bound)
    /\ lastDispatch' = [NoDispatchYet EXCEPT
                          !.method = "getRecentNotifications", !.count = limit,
                          !.channel = Channel, !.result = "true",
                          !.records = getRecentNotifications(limit)]
    /\ UNCHANGED <<webClients, webNotifications, fcmTokens, clientLog>>

\* NotificationService.testNotification()
testNotification ==
    /\ DispatchFrame
    /\ Emit("testNotification", 0, "test", FALSE)

(* ------------------------- leave-request classifier ------------------- *)
SubjectChars == {" ", "R", "e", ":", "f", "w", "d"}

\* the Subject header of a fetched message; getEmailDetails leaves
\* emailData.subject undefined when the header is absent
NoSubjectHeader == [has |-> FALSE, value |-> <<>>]
SubjectHeaders ==
    {NoSubjectHeader} \cup [has : {TRUE}, value : SeqsUpTo(SubjectChars, MaxSubject)]

\* entries LEAVE_REQUEST_SUBJECT_KEYWORDS can hold after split(',') and trim();
\* a trailing comma in LEAVE_REQUEST_KEYWORDS leaves the empty keyword
KeywordChoices == {<<"W">>, <<"R", "e">>, <<>>}
KeywordLists == (SUBSET KeywordChoices) \ {{}}

\* String.prototype.trim
RECURSIVE trimStart(_)
trimStart(s) == IF s # <<>> /\ Head(s) = " " THEN trimStart(Tail(s)) ELSE s

RECURSIVE trimEnd(_)
trimEnd(s) == IF s # <<>> /\ s[Len(s)] = " " THEN trimEnd(SubSeq(s, 1, Len(s) - 1)) ELSE s

trim(s) == trimEnd(trimStart(s))

\* String.prototype.includes
includes(s, sub) == \E i \in 0..(Len(s) - Len(sub)) : SubSeq(s, i + 1, i + Len(sub)) = sub

\* `email.subject || ''`
SubjectOrEmpty(subject) == IF subject.has THEN subject.value ELSE <<>>

\* subjectLower.match(/^(re:|fwd?:|fw:)/)
MatchesReplyOrForwardMutant(subjectLower) ==
    \/ startsWith(subjectLower, <<"r", "e", ":">>)
    \/ startsWith(subjectLower, <<"f", "w", "d", ":">>)

MatchesReplyOrForward(subjectLower) ==
    \/ startsWith(subjectLower, <<"r", "e", ":">>)
    \/ startsWith(subjectLower, <<"f", "w", "d", ":">>)
    \/ startsWith(subjectLower, <<"f", "w", ":">>)

\* LEAVE_REQUEST_SUBJECT_KEYWORDS.some(keyword =>
\*     subjectLower.includes(keyword.toLowerCase()))
HasKeywordMutant(subjectLower, keywords) ==
    \E keyword \in keywords : includes(subjectLower, keyword)

HasKeyword(subjectLower, keywords) ==
    \E keyword \in keywords : includes(subjectLower, toLowerCase(keyword))

\* the body of `for (const email of emails)` in findLeaveRequests: whether the
\* message is pushed to leaveRequests
IsLeaveRequest(subject, keywords) ==
    LET subjectLower == trim(toLowerCase(SubjectOrEmpty(subject))) IN
    IF MatchesReplyOrForward(subjectLower) THEN FALSE
    ELSE HasKeyword(subjectLower, keywords)

\* findLeaveRequests filters one fetched message
ClassifyMessage ==
    /\ cpc = "ready"
    /\ cResult' = IsLeaveRequest(cSubject, cKeywords)
    /\ cpc' = "done"
    /\ UNCHANGED <<cSubject, cKeywords>>
    /\ UNCHANGED nonClassifyVars

(* ----------------------------- lookback window ------------------------ *)
\* runOnce computes daysBack before it calls findLeaveRequests(daysBack)
ComputeDaysBack ==
    /\ wpc = "ready"
    /\ daysBack' = LookbackDays(REPLY_TIMEOUT_HOURS)
    /\ wpc' = "done"
    /\ UNCHANGED configVars
    /\ UNCHANGED nonWindowVars

(* -------------------------------- API server -------------------------- *)
\* `new LeaveRequestAgent(gmailClient)` followed by `agent.runOnce()`; the injected
\* client is already authenticated, so initialize() cannot throw
ConstructAndRun(a, driver) ==
    /\ a \notin constructed
    /\ \A b \in AgentIds : b < a => b \in constructed
    /\ constructed' = constructed \cup {a}
    /\ mode' = [mode EXCEPT ![a] = driver]
    /\ processedRequests' = OwnProcessedSet(processedRequests, a)
    /\ agentService' = [agentService EXCEPT ![a] = NewAgentService]
    /\ \E listOk \in BOOLEAN : \E fetched \in SearchResults :
          BeginRun(a, listOk, fetched)
    /\ UNCHANGED <<alertCount, interrupted, dispatchReturned>>
    /\ UNCHANGED <<configVars, mailVars, nonAgentVars>>

\* app.post('/api/check', ...)
ApiCheck(a) == ConstructAndRun(a, "api")

\* cron.schedule(cronExpr, ...) for the connected user
CronCheck(a) == ConstructAndRun(a, "cron")

(* ------------------------------ initial states ------------------------ *)
ConfigInit ==
    /\ REPLY_TIMEOUT_HOURS \in 0..MaxTimeout
    /\ CHECK_INTERVAL_HOURS \in 1..MaxInterval

MailInit ==
    /\ now = 1
    /\ mailbox = NoMail

\* no LeaveRequestAgent has been constructed
NoAgents ==
    /\ constructed = {}
    /\ mode = [a \in AgentIds |-> "none"]
    /\ pc = [a \in AgentIds |-> "idle"]
    /\ processedRequests = [a \in AgentIds |-> NewSet]
    /\ todo = [a \in AgentIds |-> <<>>]
    /\ pendingRequests = [a \in AgentIds |-> <<>>]
    /\ queue = [a \in AgentIds |-> <<>>]
    /\ results = [a \in AgentIds |-> NewResults(0)]
    /\ runNo = [a \in AgentIds |-> 0]
    /\ waitUntil = [a \in AgentIds |-> 0]
    /\ evalLog = [a \in AgentIds |-> <<>>]
    /\ runAlerts = [a \in AgentIds |-> <<>>]
    /\ alertCount = [a \in AgentIds |-> [m \in DOMAIN mailbox |-> 0]]
    /\ interrupted = FALSE
    /\ agentService = [a \in AgentIds |-> NewAgentService]
    /\ dispatchReturned = [a \in AgentIds |-> [m \in DOMAIN mailbox |-> "none"]]
    /\ searchFailed = [a \in AgentIds |-> FALSE]

AgentInit ==
    /\ constructed = {MainAgent}
    /\ mode \in {[a \in AgentIds |-> IF a = MainAgent THEN d ELSE "none"] :
                    d \in {"once", "continuous"}}
    /\ pc = [a \in AgentIds |-> "idle"]
    /\ processedRequests = [a \in AgentIds |-> NewSet]
    /\ todo = [a \in AgentIds |-> <<>>]
    /\ pendingRequests = [a \in AgentIds |-> <<>>]
    /\ queue = [a \in AgentIds |-> <<>>]
    /\ results = [a \in AgentIds |-> NewResults(0)]
    /\ runNo = [a \in AgentIds |-> 0]
    /\ waitUntil = [a \in AgentIds |-> 0]
    /\ evalLog = [a \in AgentIds |-> <<>>]
    /\ runAlerts = [a \in AgentIds |-> <<>>]
    /\ alertCount = [a \in AgentIds |-> [m \in DOMAIN mailbox |-> 0]]
    /\ interrupted = FALSE
    /\ agentService = [a \in AgentIds |-> NewAgentService]
    /\ dispatchReturned = [a \in AgentIds |-> [m \in DOMAIN mailbox |-> "none"]]
    /\ searchFailed = [a \in AgentIds |-> FALSE]

\* a FirebaseService as its constructor leaves it
NewFirebaseService ==
    /\ fcmInitialized = FALSE
    /\ fcmTokens = <<>>
    /\ fcmPc = "idle"
    /\ tokens = <<>>
    /\ sends = 0
    /\ sendLog = NoSend
    /\ failedAttempt = {}

NoReplyCall ==
    /\ rOriginal = "none"
    /\ rThread = <<>>
    /\ rFetchOk = TRUE
    /\ rDetailOk = {}
    /\ rResult = "none"
    /\ rpc = "idle"
    /\ rFetches = 0
    /\ rFirstId = "none"

\* the agent's NotificationService: the platform notifier, nothing attached
NewNotificationService ==
    /\ nsService = "web"
    /\ isProduction = FALSE
    /\ nsInitialized = FALSE
    /\ webClients = {}
    /\ webNotifications = <<>>
    /\ dispatches = 0
    /\ lastDispatch = NoDispatchYet
    /\ clientLog = NoClients

NoClassifyCall ==
    /\ cSubject = NoSubjectHeader
    /\ cKeywords = {}
    /\ cResult = FALSE
    /\ cpc = "idle"

NoWindowCall ==
    /\ daysBack = 0
    /\ wpc = "idle"

\* the components a specification does not exercise
Idle == NewNotificationService /\ NoClassifyCall /\ NoWindowCall

(* ------------------ specification: the command-line agent ------------- *)
Init == ConfigInit /\ MailInit /\ AgentInit /\ NoReplyCall /\ NewFirebaseService /\ Idle

Next ==
    \/ \E a \in AgentIds : RunOnce(a)
    \/ \E a \in AgentIds : Evaluate(a)
    \/ \E a \in AgentIds : Notify(a)
    \/ \E a \in AgentIds : Summarize(a)
    \/ Sigint
    \/ \E m \in MsgIds : SendLeaveRequest(m)
    \/ \E m \in MsgIds : SendUndatedLeaveRequest(m)
    \/ \E m \in MsgIds : ThreadMessageArrives(m)
    \/ Tick

Spec == Init /\ [][Next]_vars

(* ------- specification: the agent with collaborators that can throw --- *)
\* one message more than MsgIds, so that a scan has a candidate left when the
\* handling of another one throws
MoreMsgIds == 1..(MaxMsgs + 1)

ThrowingInit ==
    /\ ConfigInit
    /\ now = 1
    /\ mailbox = [m \in MoreMsgIds |-> [sent |-> FALSE, internal_date |-> 0, later |-> <<>>]]
    /\ AgentInit
    /\ NoReplyCall
    /\ NewFirebaseService
    /\ Idle

ThrowingNext ==
    \/ \E a \in AgentIds : RunOnce(a)
    \/ \E a \in AgentIds : Evaluate(a)
    \/ \E a \in AgentIds : Notify(a)
    \/ \E a \in AgentIds : Summarize(a)
    \/ \E a \in AgentIds : CatchLoopError(a)
    \/ \E m \in MoreMsgIds : SendLeaveRequest(m)
    \/ \E m \in MoreMsgIds : ThreadMessageArrives(m)
    \/ Tick

SpecThrowing == ThrowingInit /\ [][ThrowingNext]_vars

(* --------- specification: the continuous loop over many hours --------- *)
ShortInterval == 24    \* a CHECK_INTERVAL_HOURS inside the lookback window
LongInterval == 240    \* a CHECK_INTERVAL_HOURS beyond the lookback window

LiveInit ==
    /\ REPLY_TIMEOUT_HOURS \in 0..MaxTimeout
    /\ CHECK_INTERVAL_HOURS \in {ShortInterval, LongInterval}
    /\ MailInit
    /\ AgentInit
    /\ mode[MainAgent] = "continuous"
    /\ NoReplyCall
    /\ NewFirebaseService
    /\ Idle

\* the clock stops advancing here; the loop goes on
LiveHorizon == 1 + LongInterval + ShortInterval

\* `while (true) { await this.runOnce(); ...`: a cycle of the loop whose
\* initialize() resolves and whose search lists and fetches every message the
\* query matches
CompleteScan(a) ==
    /\ a \in constructed
    /\ mode[a] = "continuous"
    /\ \/ pc[a] = "idle"
       \/ pc[a] = "done" /\ now >= waitUntil[a]
    /\ \E leaveRequests \in SearchResults :
          /\ Len(leaveRequests) = Cardinality(Candidates)
          /\ BeginRun(a, TRUE, leaveRequests)
    /\ UNCHANGED <<dispatchReturned, agentService, interrupted, constructed, mode,
                   processedRequests, alertCount>>
    /\ UNCHANGED <<configVars, mailVars, nonAgentVars>>

\* `await new Promise(resolve => setTimeout(resolve, waitSeconds * 1000))`:
\* the interval passes and the timer fires
TimerFires(a) ==
    /\ mode[a] = "continuous"
    /\ pc[a] = "done"
    /\ now < waitUntil[a]
    /\ now' = IF waitUntil[a] <= LiveHorizon THEN waitUntil[a] ELSE LiveHorizon
    /\ waitUntil' = [waitUntil EXCEPT ![a] = now']
    /\ UNCHANGED <<searchFailed, dispatchReturned, agentService, interrupted, constructed, mode, pc,
                   processedRequests, todo, pendingRequests, queue, results, runNo,
                   evalLog, runAlerts, alertCount>>
    /\ UNCHANGED <<mailbox, configVars, nonAgentVars>>

LiveNext ==
    \/ \E a \in AgentIds : CompleteScan(a)
    \/ \E a \in AgentIds : Evaluate(a)
    \/ \E a \in AgentIds : Notify(a)
    \/ \E a \in AgentIds : Summarize(a)
    \/ \E a \in AgentIds : TimerFires(a)
    \/ \E m \in MsgIds : SendLeaveRequest(m)
    \/ \E m \in MsgIds : SendUndatedLeaveRequest(m)

\* the event loop runs every continuation that is ready, and timers fire
SpecLive ==
    /\ LiveInit
    /\ [][LiveNext]_vars
    /\ WF_vars(\E a \in AgentIds : CompleteScan(a))
    /\ WF_vars(\E a \in AgentIds : Evaluate(a))
    /\ WF_vars(\E a \in AgentIds : Notify(a))
    /\ WF_vars(\E a \in AgentIds : Summarize(a))
    /\ WF_vars(\E a \in AgentIds : TimerFires(a))

(* ------ specification: the agent with the FCM-backed service --------- *)
\* the process runs with or without NODE_ENV=production
DeployedInit ==
    /\ ConfigInit /\ MailInit /\ AgentInit /\ NoReplyCall /\ NewFirebaseService
    /\ NoClassifyCall /\ NoWindowCall
    /\ nsService = "fcm"
    /\ isProduction \in BOOLEAN
    /\ nsInitialized = FALSE
    /\ webClients = {}
    /\ webNotifications = <<>>
    /\ dispatches = 0
    /\ lastDispatch = NoDispatchYet
    /\ clientLog = NoClients

DeployedNext ==
    \/ \E a \in AgentIds : RunOnce(a)
    \/ \E a \in AgentIds : Evaluate(a)
    \/ \E a \in AgentIds : Notify(a)
    \/ \E a \in AgentIds : Summarize(a)
    \/ \E m \in MsgIds : SendLeaveRequest(m)
    \/ \E m \in MsgIds : ThreadMessageArrives(m)
    \/ Tick

SpecDeployed == DeployedInit /\ [][DeployedNext]_vars

(* --------------------- specification: the API server ------------------ *)
\* the server runs with or without NODE_ENV=production
ServerEnvironment ==
    /\ nsService = "web"
    /\ isProduction \in BOOLEAN
    /\ nsInitialized = FALSE
    /\ webClients = {}
    /\ webNotifications = <<>>
    /\ dispatches = 0
    /\ lastDispatch = NoDispatchYet
    /\ clientLog = NoClients

ServerInit ==
    /\ ConfigInit /\ MailInit /\ NoAgents /\ NoReplyCall /\ NewFirebaseService
    /\ ServerEnvironment /\ NoClassifyCall /\ NoWindowCall

ServerNext ==
    \/ \E a \in AgentIds : ApiCheck(a)
    \/ \E a \in AgentIds : CronCheck(a)
    \/ \E a \in AgentIds : Evaluate(a)
    \/ \E a \in AgentIds : Notify(a)
    \/ \E a \in AgentIds : Summarize(a)
    \/ \E m \in MsgIds : SendLeaveRequest(m)
    \/ \E m \in MsgIds : ThreadMessageArrives(m)
    \/ Tick

SpecServer == ServerInit /\ [][ServerNext]_vars

(* ------------------ specification: the push dispatcher --------------- *)
PushInit ==
    /\ REPLY_TIMEOUT_HOURS = MaxTimeout
    /\ CHECK_INTERVAL_HOURS = MaxInterval
    /\ MailInit
    /\ NoAgents
    /\ NoReplyCall
    /\ NewFirebaseService
    /\ Idle

PushNext ==
    \/ InitializeFirebase
    \/ \E token \in Tokens : addFCMToken(token)
    \/ \E token \in Tokens : removeFCMToken(token)
    \/ SendNotification
    \/ MulticastReturns
    \/ MulticastThrows

SpecPush == PushInit /\ [][PushNext]_vars

(* ------------------- specification of the resolver -------------------- *)
ThreadIds == {1, 2, 3}
OriginalId == CHOOSE i \in ThreadIds : \A j \in ThreadIds : i <= j

Originals ==
    [id : {OriginalId}, thread_id : BOOLEAN, internal_date : 0..MaxDate,
     from : {"me"}]

ThreadMessages(original) ==
    {m \in [id : ThreadIds, internalDate : 0..MaxDate, from : Senders,
            subject : Subjects] :
        m.id = original.id =>
            /\ m.internalDate = original.internal_date
            /\ m.from = original.from
            /\ m.subject = SubjPlain}

DistinctIds(s) == \A i, j \in 1..Len(s) : i # j => s[i].id # s[j].id

Threads(original) ==
    {s \in SeqsUpTo(ThreadMessages(original), Cardinality(ThreadIds)) :
        /\ DistinctIds(s)
        /\ \E i \in 1..Len(s) : s[i].id = original.id}

ReplyInit ==
    /\ REPLY_TIMEOUT_HOURS = MaxTimeout
    /\ CHECK_INTERVAL_HOURS = MaxInterval
    /\ MailInit
    /\ NoAgents
    /\ NewFirebaseService
    /\ Idle
    /\ rOriginal \in Originals
    /\ rThread \in IF rOriginal.thread_id THEN Threads(rOriginal) ELSE {<<>>}
    /\ rFetchOk \in BOOLEAN
    /\ rDetailOk \in SUBSET (ThreadIds \ {OriginalId})
    /\ rResult = "none"
    /\ rpc = "ready"
    /\ rFetches = 0
    /\ rFirstId = "none"

CallCheckForReply ==
    /\ rpc = "ready"
    /\ rResult' = checkForReply(rOriginal, rThread, rFetchOk, rDetailOk)
    \* `if (!threadId) return false` comes before the threads.get call
    /\ rFetches' = IF ~rOriginal.thread_id THEN rFetches ELSE rFetches + 1
    /\ rFirstId' = IF rOriginal.thread_id /\ rFetchOk
                   THEN OriginalMessageId(rThread) ELSE rFirstId
    /\ rpc' = "done"
    /\ UNCHANGED <<rOriginal, rThread, rFetchOk, rDetailOk>>
    /\ UNCHANGED nonReplyVars

ReplyNext == CallCheckForReply

SpecReply == ReplyInit /\ [][ReplyNext]_vars

(* ---------------- specification: the notification dispatcher ---------- *)
DispatchInit ==
    /\ REPLY_TIMEOUT_HOURS = MaxTimeout
    /\ CHECK_INTERVAL_HOURS = MaxInterval
    /\ MailInit
    /\ NoAgents
    /\ NoReplyCall
    /\ NewFirebaseService
    /\ NoClassifyCall
    /\ NoWindowCall
    /\ nsService \in {"web", "fcm", "desktop"}
    /\ isProduction \in BOOLEAN
    /\ nsInitialized = FALSE
    /\ webClients = {}
    /\ webNotifications = <<>>
    /\ dispatches = 0
    /\ lastDispatch = NoDispatchYet
    /\ clientLog = NoClients

DispatchNext ==
    \/ InitializeNotifications
    \/ \E token \in Tokens : registerFCMToken(token)
    \/ \E client \in WebClientIds : addWebClient(client)
    \/ \E client \in WebClientIds : CloseWebClient(client)
    \/ notifyPendingLeaveRequest
    \/ \E count \in 0..MaxCount : notifySummary(count)
    \/ testNotification

SpecDispatch == DispatchInit /\ [][DispatchNext]_vars

(* ------------- specification: the web channel's history -------------- *)
\* one dispatch more than getRecentNotifications returns by default
MaxRecords == RecentLimit + 1

\* the web service in production (NODE_ENV === 'production')
HistoryInit ==
    /\ REPLY_TIMEOUT_HOURS = MaxTimeout
    /\ CHECK_INTERVAL_HOURS = MaxInterval
    /\ MailInit
    /\ NoAgents
    /\ NoReplyCall
    /\ NewFirebaseService
    /\ NoClassifyCall
    /\ NoWindowCall
    /\ nsService = "web"
    /\ isProduction = TRUE
    /\ nsInitialized = FALSE
    /\ webClients = {}
    /\ webNotifications = <<>>
    /\ dispatches = 0
    /\ lastDispatch = NoDispatchYet
    /\ clientLog = NoClients

HistoryNext ==
    \/ notifyPendingLeaveRequestUpTo(MaxRecords)
    \/ \E count \in 0..MaxCount : notifySummaryUpTo(count, MaxRecords)
    \/ \E limit \in 0..MaxRecords : ReadRecentNotifications(limit, MaxRecords)

SpecHistory == HistoryInit /\ [][HistoryNext]_vars

(* ------------------- specification of the classifier ------------------ *)
ClassifyInit ==
    /\ REPLY_TIMEOUT_HOURS = MaxTimeout
    /\ CHECK_INTERVAL_HOURS = MaxInterval
    /\ MailInit
    /\ NoAgents
    /\ NoReplyCall
    /\ NewFirebaseService
    /\ NewNotificationService
    /\ NoWindowCall
    /\ cSubject \in SubjectHeaders
    /\ cKeywords \in KeywordLists
    /\ cResult = FALSE
    /\ cpc = "ready"

ClassifyNext == ClassifyMessage

SpecClassify == ClassifyInit /\ [][ClassifyNext]_vars

(* ----------------- specification of the lookback window --------------- *)
WindowInit ==
    /\ REPLY_TIMEOUT_HOURS \in 0..MaxHours
    /\ CHECK_INTERVAL_HOURS = MaxInterval
    /\ MailInit
    /\ NoAgents
    /\ NoReplyCall
    /\ NewFirebaseService
    /\ NewNotificationService
    /\ NoClassifyCall
    /\ daysBack = 0
    /\ wpc = "ready"

WindowNext == ComputeDaysBack

SpecWindow == WindowInit /\ [][WindowNext]_vars

LaterFromOther(original, m) ==
    /\ m.internalDate > original.internal_date
    /\ m.from # original.from

\* C5 (as claimed): checkForReply returns true whenever the thread contains a
\* message dated strictly after the original from a different sender, for every
\* thread content, order and detail-fetch outcome.
C5_AsClaimed ==
    (rpc = "done" /\ \E i \in 1..Len(rThread) : LaterFromOther(rOriginal, rThread[i]))
        => rResult = TRUE

\* C5 (amended): checkForReply returns true whenever the thread fetch succeeds
\* and the thread contains a message that is dated strictly after the original,
\* comes from a different sender, and whose detail fetch succeeds.
C5_ReplyFoundWhenFetched ==
    (/\ rpc = "done"
     /\ rFetchOk
     /\ \E i \in 1..Len(rThread) :
            /\ LaterFromOther(rOriginal, rThread[i])
            /\ rThread[i].id \in rDetailOk)
        => rResult = TRUE

C5_Witness ==
    /\ rpc = "done"
    /\ rFetchOk
    /\ Len(rThread) = 3
    /\ rResult = TRUE
    /\ \E i \in 1..Len(rThread) :
            /\ LaterFromOther(rOriginal, rThread[i])
            /\ rThread[i].id \in rDetailOk
            /\ rThread[i].subject = SubjPlain

\* C6: checkForReply returns false when the thread contains only the original
\* message itself.
C6_OnlyOriginalNoReply ==
    (/\ rpc = "done"
     /\ rOriginal.thread_id
     /\ Len(rThread) = 1
     /\ rThread[1].id = rOriginal.id)
        => rResult = FALSE

C6_Witness ==
    /\ rpc = "done"
    /\ rOriginal.thread_id
    /\ rFetchOk
    /\ Len(rThread) = 1
    /\ rThread[1].id = rOriginal.id
    /\ rResult = FALSE

(* ------------------------ claims: run orchestrator -------------------- *)
\* leave_request alerts for message id among the alerts of a's run in progress
AlertsFor(a, id) ==
    Cardinality({i \in 1..Len(runAlerts[a]) : runAlerts[a][i] = LeaveRequestAlert(id)})

Entries(a) == {evalLog[a][i] : i \in 1..Len(evalLog[a])}

\* C1: on one agent instance the per-candidate alert is dispatched at most once
\* for any message id, and once an id is in processedRequests no later alert is
\* dispatched for it.
C1_AlertAtMostOnce ==
    /\ [](\A a \in AgentIds, m \in MsgIds : alertCount[a][m] <= 1)
    /\ [][\A a \in AgentIds, m \in MsgIds :
             m \in processedRequests[a] => alertCount'[a][m] = alertCount[a][m]]_vars

C1_Witness ==
    \E a \in AgentIds, m \in MsgIds :
        /\ alertCount[a][m] = 1
        /\ runNo[a] = 2
        /\ pc[a] = "done"
        /\ \E e \in Entries(a) : e.id = m /\ e.outcome = "processed" /\ ~e.resolved

\* C2 (as claimed): in one server process a message alerted by one check and
\* still unreplied is not alerted again by another check (POST /api/check or cron).
C2_NoRealertAcrossChecks ==
    \A a, b \in AgentIds, m \in MsgIds :
        (a # b /\ alertCount[a][m] > 0 /\ alertCount[b][m] > 0)
            => \E e \in Entries(a) \cup Entries(b) : e.id = m /\ e.resolved

\* C3: a candidate that is in processedRequests when a runOnce call reaches it
\* triggers no alert in that call, and a call in which every overdue candidate
\* was already processed returns notifications_sent = 0.
C3_IdempotentRerun ==
    \A a \in AgentIds :
        /\ \A e \in Entries(a) : e.processed => AlertsFor(a, e.id) = 0
        /\ (pc[a] = "done" /\ \A e \in Entries(a) : e.overdue => e.processed)
              => results[a].notifications_sent = 0

\* the second call on an instance is done, the mailbox is as the first call found
\* it, and the request alerted by the first call was skipped
C3_Witness ==
    \E a \in AgentIds :
        /\ runNo[a] = 2
        /\ pc[a] = "done"
        /\ results[a].notifications_sent = 0
        /\ results[a].checked_requests = Cardinality(Candidates)
        /\ Candidates # {}
        /\ \A m \in Candidates :
              /\ mailbox[m].later = <<>>
              /\ alertCount[a][m] = 1
              /\ \E e \in Entries(a) : e.id = m /\ e.processed /\ e.overdue

\* C4: a candidate younger than REPLY_TIMEOUT_HOURS when the first loop visits it
\* gets no checkForReply call, is not queued and is not added to processedRequests.
C4_GracePeriodUntouched ==
    \A a \in AgentIds : \A e \in Entries(a) :
        ~e.overdue =>
            /\ ~e.called
            /\ \A i \in 1..Len(pendingRequests[a]) : pendingRequests[a][i] # e.id
            /\ e.id \notin processedRequests[a]

C4_Witness ==
    \E a \in AgentIds : \E e \in Entries(a) :
        /\ ~e.overdue
        /\ e.outcome = "grace"
        /\ pc[a] = "done"
        /\ REPLY_TIMEOUT_HOURS > 0

\* the alerts of a completed run: one leave_request alert per queued candidate, in
\* queue order, then one summary with the count; nothing when nothing was queued
AlertsAsQueued(a) ==
    LET n == Len(pendingRequests[a]) IN
    /\ results[a].pending_requests = n
    /\ IF n >= 1
       THEN runAlerts[a] =
              [i \in 1..n |-> LeaveRequestAlert(pendingRequests[a][i])]
                  \o <<SummaryAlert(n)>>
       ELSE runAlerts[a] = <<>>

HandledAsReplied(a, e) ==
    /\ \A i \in 1..Len(pendingRequests[a]) : pendingRequests[a][i] # e.id
    /\ AlertsFor(a, e.id) = 0
    /\ e.id \in processedRequests[a]

C9_AsClaimed ==
    sendLog.outcome = "returned" => sendLog.after = sendLog.start \ sendLog.failed

\* C9 (amended): after such a send the registry equals the registry as it stood
\* when the results arrived (the tokens at send start, plus those registered and
\* minus those unregistered while the send was in flight) minus exactly the
\* failed tokens; it equals start minus failed when nothing was registered or
\* unregistered meanwhile, and no successful token is removed.
C9_PrunesExactlyFailed ==
    sendLog.outcome = "returned" =>
        /\ sendLog.after = sendLog.before \ sendLog.failed
        /\ sendLog.before = sendLog.start => sendLog.after = sendLog.start \ sendLog.failed

\* tokens [1,2,3] with 2 failing leave exactly {1,3}
C9_Witness ==
    /\ sendLog.outcome = "returned"
    /\ sendLog.start = Tokens
    /\ sendLog.before = Tokens
    /\ Cardinality(sendLog.failed) = 1
    /\ sendLog.failed = {tokens[2]}
    /\ sendLog.after = Tokens \ sendLog.failed

\* C11: when the token registry is empty, sendNotification makes no multicast
\* call, leaves the registry unchanged, raises no error and returns false.
C11_EmptyRegistryNoOp ==
    [][(sends' = sends + 1 /\ Len(fcmTokens) = 0) =>
          /\ fcmPc' = "idle"
          /\ fcmTokens' = fcmTokens
          /\ sendLog'.outcome = "skipped"
          /\ sendLog'.returned = FALSE]_vars

\* an initialized service that already sent once meets an empty registry
C11_Witness ==
    /\ fcmInitialized
    /\ failedAttempt # {}
    /\ sendLog.outcome = "skipped"
    /\ sendLog.start = {}
    /\ fcmTokens = <<>>

\* C10 (as claimed): a token whose latest send attempt failed, by a per-token
\* failure or because the whole multicast call failed, and that was not
\* registered again since, is not in the registry when the next send starts.
C10_FailedTokenGoneBeforeNextSend ==
    fcmPc = "sending" => ToSet(tokens) \cap failedAttempt = {}

(* --------------------- claims: notification dispatcher ---------------- *)
\* C12: in every channel variant a summary dispatch with count = 0 returns true
\* and emits nothing: no platform notification, no multicast call, no write to a
\* web listener, no append to the web history buffer.
C12_ZeroCountSummaryIsSilent ==
    [][(dispatches' = dispatches + 1 /\ lastDispatch'.method = "notifySummary"
            /\ lastDispatch'.count = 0) =>
          /\ lastDispatch'.result = "true"
          /\ lastDispatch'.platform = 0
          /\ lastDispatch'.multicast = 0
          /\ lastDispatch'.writes = 0
          /\ ~lastDispatch'.appended
          /\ webNotifications' = webNotifications
          /\ webClients' = webClients
          /\ fcmTokens' = fcmTokens]_vars

\* a zero-count summary on the web channel with a listener attached
C12_Witness ==
    /\ lastDispatch.method = "notifySummary"
    /\ lastDispatch.count = 0
    /\ lastDispatch.channel = "web"
    /\ lastDispatch.result = "true"
    /\ webClients # {}
    /\ webNotifications = <<>>

\* C16: in every channel variant notifyPendingLeaveRequest, notifySummary and
\* testNotification return a boolean and never throw, also when the platform
\* notifier, the multicast call or a listener write fails.
C16_DispatchReturnsBoolean ==
    lastDispatch.method # "none" => lastDispatch.result \in {"true", "false"}

\* the multicast call of a per-candidate alert fails
C16_Witness ==
    /\ lastDispatch.method = "notifyPendingLeaveRequest"
    /\ lastDispatch.channel = "push"
    /\ lastDispatch.multicast = 1
    /\ lastDispatch.backendFailed
    /\ lastDispatch.result = "false"

(* ----------------------------- claims: classifier --------------------- *)
\* the subject as the classifier compares it: lower-cased and trimmed
Normalized(subject) == trim(toLowerCase(SubjectOrEmpty(subject)))

StartsWithMarker(s) ==
    \E marker \in {<<"r", "e", ":">>, <<"f", "w", "d", ":">>, <<"f", "w", ":">>} :
        startsWith(s, marker)

ContainsKeyword(s, keywords) ==
    \E keyword \in keywords : includes(toLowerCase(s), toLowerCase(keyword))

\* C17: a message whose subject, lower-cased and trimmed, starts with re:, fwd:
\* or fw: is never a candidate, whatever keywords the subject contains.
C17_ReplyForwardExcluded ==
    (cpc = "done" /\ StartsWithMarker(Normalized(cSubject))) => cResult = FALSE

\* a forward whose subject contains a configured keyword
C17_Witness ==
    /\ cpc = "done"
    /\ startsWith(Normalized(cSubject), <<"f", "w", ":">>)
    /\ ContainsKeyword(Normalized(cSubject), cKeywords)
    /\ <<>> \notin cKeywords
    /\ cResult = FALSE

\* C18 (as claimed): a message is a candidate iff its subject does not start with
\* a reply/forward marker and contains a configured keyword, and a message with
\* an empty or absent subject is never a candidate, for every keyword list.
C18_AsClaimed ==
    cpc = "done" =>
        /\ cResult <=> (/\ ~StartsWithMarker(Normalized(cSubject))
                        /\ ContainsKeyword(Normalized(cSubject), cKeywords))
        /\ SubjectOrEmpty(cSubject) = <<>> => cResult = FALSE

\* C18 (amended): a message is a candidate iff its subject does not start with a
\* reply/forward marker and contains a configured keyword; a message with an
\* empty or absent subject is never a candidate when no configured keyword is
\* the empty string.
C18_CandidateIffKeywordNoMarker ==
    cpc = "done" =>
        /\ cResult <=> (/\ ~StartsWithMarker(Normalized(cSubject))
                        /\ ContainsKeyword(Normalized(cSubject), cKeywords))
        /\ (SubjectOrEmpty(cSubject) = <<>> /\ <<>> \notin cKeywords) => cResult = FALSE

\* a message without Subject header, classified under non-empty keywords
C18_Witness ==
    /\ cpc = "done"
    /\ cSubject = NoSubjectHeader
    /\ cKeywords = {<<"W">>, <<"R", "e">>}
    /\ cResult = FALSE

(* --------------------------- claims: lookback window ------------------ *)
\* C20: daysBack = max(7, ceil(REPLY_TIMEOUT_HOURS / 24) + 1), and for every
\* non-negative integer timeout daysBack * 24 >= REPLY_TIMEOUT_HOURS.
C20_WindowCoversTimeout ==
    wpc = "done" =>
        /\ daysBack >= 7
        /\ (daysBack - 1) * 24 >= REPLY_TIMEOUT_HOURS
        /\ daysBack = 7 \/ (daysBack - 2) * 24 < REPLY_TIMEOUT_HOURS
        /\ daysBack * 24 >= REPLY_TIMEOUT_HOURS

\* a timeout of more than a week, where the ceil term decides
C20_Witness ==
    /\ wpc = "done"
    /\ REPLY_TIMEOUT_HOURS > 7 * 24
    /\ daysBack > 7
    /\ daysBack * 24 >= REPLY_TIMEOUT_HOURS

(* ------------------------ claims: errors and age --------------------- *)
\* C14 (as claimed): a configuration or authentication error during a run is
\* caught by runOnce and recorded in the result's errors list, never thrown to
\* the caller, so that runContinuous waits and runs again.
C14_AuthErrorNotThrown ==
    \A a \in constructed : pc[a] # "threw"

\* C15 (as claimed): when the thread fetch or the detail fetch of a later
\* message fails during reply resolution, checkForReply yields false for it and
\* the errors list of the runOnce result holds an entry for the failure.
C15_FetchFailureReported ==
    \A a \in constructed : \A e \in Entries(a) :
        (e.called /\ (~e.fetchOk \/ e.laterOther \ e.detailOk # {})) =>
            results[a].errors # <<>>

\* candidates whose internal_date is 0 or absent
Undated == {m \in MsgIds : mailbox[m].sent /\ mailbox[m].internal_date = 0}

\* C19 (as claimed): for every REPLY_TIMEOUT_HOURS, runOnce never calls
\* checkForReply and never dispatches an alert for a candidate whose
\* internal_date is 0 or absent.
C19_AsClaimed ==
    \A a \in constructed :
        /\ \A e \in Entries(a) : e.id \in Undated => ~e.called
        /\ \A m \in Undated : alertCount[a][m] = 0

\* C19 (amended): for every REPLY_TIMEOUT_HOURS greater than 0, a candidate whose
\* internal_date is 0 or absent has age 0, and runOnce never calls checkForReply
\* and never dispatches an alert for it.
C19_UndatedNeverOverdue ==
    REPLY_TIMEOUT_HOURS > 0 =>
        \A a \in constructed :
            /\ \A e \in Entries(a) : e.id \in Undated => (~e.called /\ ~e.overdue)
            /\ \A m \in Undated : alertCount[a][m] = 0

\* an undated candidate seen by a scan an hour after the clock started
C19_Witness ==
    /\ REPLY_TIMEOUT_HOURS > 0
    /\ now > REPLY_TIMEOUT_HOURS
    /\ \E a \in constructed : \E e \in Entries(a) :
            /\ e.id \in Undated
            /\ e.outcome = "grace"
            /\ pc[a] = "done"

\* C13 (as claimed): an error raised while one candidate is handled in a loop of
\* runOnce is caught and appended to errors, and the remaining candidates of
\* that run are still evaluated and notified.
C13_ErrorDoesNotStopRemaining ==
    \A a \in constructed :
        (pc[a] = "done" /\ results[a].errors # <<>>) =>
            \* every candidate but the one that raised was visited by the first
            \* loop, and every queued one but the one that raised was alerted
            /\ Len(evalLog[a]) >= results[a].checked_requests - 1
            /\ results[a].notifications_sent >= results[a].pending_requests - 1

(* ------------------------ claims: web event stream -------------------- *)
\* response objects that were added and have neither closed nor thrown on a write
Attached == {c \in WebClientIds : clientLog[c].status = "attached"}

\* C21: webClients holds exactly the clients that were added and have neither
\* closed nor thrown on a write; a broadcast calls write exactly once on every
\* client attached at that moment, also when the write of another client
\* throws, and on no closed or detached client.
C21_ListenerSetExact ==
    /\ [](webClients = Attached)
    /\ [][lastDispatch'.broadcast /\ dispatches' = dispatches + 1 =>
             /\ lastDispatch'.writes = Cardinality(Attached)
             /\ \A c \in WebClientIds :
                   clientLog'[c].writes =
                       clientLog[c].writes + (IF c \in Attached THEN 1 ELSE 0)]_vars
    /\ [][dispatches' = dispatches =>
             \A c \in WebClientIds : clientLog'[c].writes = clientLog[c].writes]_vars

\* two broadcasts: the first reached both clients and one write threw, the
\* second reached only the client that is still attached
C21_Witness ==
    /\ lastDispatch.broadcast
    /\ dispatches = 2
    /\ \E c, d \in WebClientIds :
          /\ clientLog[c] = [status |-> "detached", writes |-> 1]
          /\ clientLog[d] = [status |-> "attached", writes |-> 2]
          /\ webClients = {d}

\* C22 (as claimed): after any number of leave_request and summary dispatches in
\* production mode the web channel's history buffer holds no more records than
\* its capacity (default 10), the oldest being dropped first.
C22_HistoryBounded ==
    /\ Len(webNotifications) <= RecentLimit
    /\ webNotifications = getRecentNotifications(RecentLimit)

(* --------------------------- claims: cancellation --------------------- *)
\* C23: in continuous mode a SIGINT received during the interval wait or during
\* a scan cycle ends the loop: nothing is raised to the caller of runContinuous,
\* no further runOnce cycle starts, and the interrupted cycle takes no further
\* step.
C23_SigintEndsLoop ==
    /\ [](interrupted => pc[MainAgent] = "exited")
    /\ [][interrupted =>
             /\ runNo' = runNo
             /\ evalLog' = evalLog
             /\ runAlerts' = runAlerts
             /\ processedRequests' = processedRequests]_vars

\* the signal arrived in the middle of a scan, with a candidate still to alert,
\* and the clock has since passed the time of the next check
C23_Witness ==
    /\ interrupted
    /\ pc[MainAgent] = "exited"
    /\ queue[MainAgent] # <<>>
    /\ runNo[MainAgent] = 1
    /\ now >= mailbox[Head(queue[MainAgent])].internal_date + CHECK_INTERVAL_HOURS

(* ----------------------- claims: instance ownership -------------------- *)
\* C24: an operation on one LeaveRequestAgent instance (its construction, a step
\* of its runOnce, a dispatch) leaves processedRequests and the dispatcher state
\* (token registry, listener set, history) of every other instance unchanged,
\* also when the runs of several instances interleave.
C24_InstancesIndependent ==
    [][\A a \in AgentIds :
          (pc'[a] # pc[a] \/ runNo'[a] # runNo[a] \/ todo'[a] # todo[a]
              \/ queue'[a] # queue[a]) =>
             \A b \in AgentIds \ {a} :
                /\ processedRequests'[b] = processedRequests[b]
                /\ agentService'[b] = agentService[b]]_vars

\* two instances in one process: the first has alerted and marked the message
\* and holds the record in its history, the second is in the middle of its own
\* run with nothing marked and an empty history
C24_Witness ==
    \E a, b \in constructed :
        /\ a # b
        /\ pc[a] = "done"
        /\ processedRequests[a] # {}
        /\ Len(agentService[a].webNotifications) = 2
        /\ pc[b] = "notifying"
        /\ processedRequests[b] = {}
        /\ agentService[b] = NewAgentService

(* ------------------------ claims: reply resolver ---------------------- *)
\* id of the earliest message of a thread by internal date (the first of them in
\* the order of the response when several share that date)
EarliestId(thread) ==
    LET first == CHOOSE i \in 1..Len(thread) :
                    \A j \in 1..Len(thread) :
                       \/ thread[i].internalDate < thread[j].internalDate
                       \/ thread[i].internalDate = thread[j].internalDate /\ i <= j
    IN thread[first].id

\* m counts as a reply to original in the thread
CountsAsReply(original, thread, detailOk, m) ==
    /\ m.id # original.id
    /\ m.id # EarliestId(thread)
    /\ m.internalDate > original.internal_date
    /\ m.id \in detailOk
    /\ \/ m.from # original.from
       \/ startsWith(toLowerCase(m.subject), <<"r", "e", ":">>)

\* C25: checkForReply(original) returns true iff thread_id is present, the
\* thread fetch succeeds and the thread holds a message other than the original
\* and the earliest one, dated strictly after the original, whose details can be
\* fetched, and that comes from another sender or has a subject starting with
\* re: when lower-cased; without thread_id it returns false and fetches nothing.
C25_ReplyExactly ==
    rpc = "done" =>
        /\ rResult = (/\ rOriginal.thread_id
                      /\ rFetchOk
                      /\ \E i \in 1..Len(rThread) :
                            CountsAsReply(rOriginal, rThread, rDetailOk, rThread[i]))
        /\ ~rOriginal.thread_id => (rResult = FALSE /\ rFetches = 0)

\* the only later message is re:-marked and comes from the sender of the original
C25_Witness ==
    /\ rpc = "done"
    /\ rResult = TRUE
    /\ rFetches = 1
    /\ Len(rThread) = 3
    /\ \E i \in 1..Len(rThread) :
          /\ rThread[i].from = rOriginal.from
          /\ rThread[i].subject = SubjRe
          /\ CountsAsReply(rOriginal, rThread, rDetailOk, rThread[i])
          /\ \A j \in 1..Len(rThread) :
                j # i => ~CountsAsReply(rOriginal, rThread, rDetailOk, rThread[j])

(* ----------------------- claims: processed requests ------------------- *)
\* the entry the first loop has just logged for message m
JustLogged(a, m) ==
    /\ Len(evalLog'[a]) = Len(evalLog[a]) + 1
    /\ evalLog'[a][Len(evalLog'[a])].id = m

\* C26: an id enters an agent's processedRequests only in the step in which that
\* agent gets true from checkForReply for the overdue candidate, or in the step
\* in which it dispatches the per-candidate alert for the candidate it had
\* queued as overdue and unreplied; never for a candidate within the grace
\* period and never ahead of its alert dispatch.
C26_ProcessedMeansHandled ==
    [][\A a \in AgentIds : \A m \in DOMAIN mailbox :
          (m \in processedRequests'[a] /\ m \notin processedRequests[a]) =>
             \/ /\ JustLogged(a, m)
                /\ evalLog'[a][Len(evalLog'[a])].overdue
                /\ evalLog'[a][Len(evalLog'[a])].called
                /\ evalLog'[a][Len(evalLog'[a])].hasReply
                /\ alertCount'[a][m] = alertCount[a][m]
             \/ /\ alertCount'[a][m] = alertCount[a][m] + 1
                /\ runAlerts'[a] = Append(runAlerts[a], LeaveRequestAlert(m))
                /\ \E e \in Entries(a) :
                      e.id = m /\ e.overdue /\ e.called /\ ~e.hasReply]_vars

\* the id entered the set with the alert of the first run, and the second
\* run of the instance found it there
C26_Witness ==
    \E a \in constructed : \E m \in processedRequests[a] :
        /\ alertCount[a][m] = 1
        /\ runNo[a] = 2
        /\ pc[a] = "done"
        /\ \E e \in Entries(a) : e.id = m /\ e.outcome = "processed"

\* C27: processedRequests is empty when the agent is constructed, and no step
\* of the agent (a run, the continuous loop, an error path) removes an id: the
\* set after any step contains the set before it.
C27_ProcessedOnlyGrows ==
    /\ [](\A a \in constructed : runNo[a] = 0 => processedRequests[a] = {})
    /\ [][\A a \in constructed :
             processedRequests[a] \subseteq processedRequests'[a]]_vars

\* the continuous loop has started its second cycle with the id of the first
\* cycle still in the set
C27_Witness ==
    \E a \in constructed :
        /\ mode[a] = "continuous"
        /\ runNo[a] = 2
        /\ pc[a] = "evaluating"
        /\ processedRequests[a] # {}

(* ------------------------------ claims: liveness ---------------------- *)
\* the request was sent while a full interval of the clock was still ahead
SentInTime(m) ==
    /\ mailbox[m].sent
    /\ now + CHECK_INTERVAL_HOURS <= LiveHorizon

C29_FetchFailureTreatedAsUnreplied ==
    \A a \in constructed :
        /\ \A e \in Entries(a) :
              (e.called /\ ~e.fetchOk) =>
                  /\ ~e.hasReply
                  /\ e.outcome = "queued"
                  /\ results[a].pending_requests >= 1
                  /\ \E i \in 1..Len(pendingRequests[a]) : pendingRequests[a][i] = e.id
                  /\ pc[a] = "done" =>
                        (AlertsFor(a, e.id) = 1 /\ e.id \in processedRequests[a])
        /\ \A e \in Entries(a) :
              (e.processed /\ e.resolved) => (~e.called /\ AlertsFor(a, e.id) = 0)

\* the manager had replied, the thread fetch failed, and the run alerted anyway
C29_Witness ==
    \E a \in constructed : \E e \in Entries(a) :
        /\ pc[a] = "done"
        /\ e.called
        /\ ~e.fetchOk
        /\ e.resolved
        /\ e.laterOther # {}
        /\ AlertsFor(a, e.id) = 1
        /\ results[a].pending_requests = 1
        /\ e.id \in processedRequests[a]

\* C30: runOnce does not read what notifyPendingLeaveRequest returns: when the
\* dispatch returns false the candidate is still counted in notifications_sent
\* and added to processedRequests, and no later scan of the same agent
\* dispatches the alert for that message again.
C30_FailedDispatchStillProcessed ==
    /\ [][\A a \in AgentIds : \A m \in DOMAIN mailbox :
             (alertCount'[a][m] = alertCount[a][m] + 1
                  /\ dispatchReturned'[a][m] = "false") =>
                /\ results'[a].notifications_sent = results[a].notifications_sent + 1
                /\ m \in processedRequests'[a]]_vars
    /\ [][\A a \in AgentIds : \A m \in DOMAIN mailbox :
             dispatchReturned[a][m] = "false" =>
                /\ alertCount'[a][m] = alertCount[a][m]
                /\ dispatchReturned'[a][m] = "false"
                /\ m \in processedRequests'[a]]_vars

\* the notifier failed in the first run; the second run found the message
\* still unreplied and skipped it
C30_Witness ==
    \E a \in constructed : \E e \in Entries(a) :
        /\ dispatchReturned[a][e.id] = "false"
        /\ runNo[a] = 2
        /\ pc[a] = "done"
        /\ e.outcome = "processed"
        /\ ~e.resolved
        /\ alertCount[a][e.id] = 1
        /\ results[a].notifications_sent = 0

(* ------------------------ claims: channel selection ------------------- *)
\* C31 (as claimed): with the FCM-backed NotificationService, every alert that
\* an agent's runOnce dispatches goes through the push channel and none through
\* the desktop notifier in production mode, and through the desktop notifier
\* and none through push in development mode.
C31_OneChannelPerMode ==
    \A a \in constructed :
        agentService[a].channels \subseteq {IF isProduction THEN "push" ELSE "desktop"}

(* ------------------- claims: registry changes in flight --------------- *)
\* C32 (as claimed): a token registered with addFCMToken while sendNotification
\* awaits the multicast result is still in the registry after that send's
\* pruning; pruning deletes only tokens of the snapshot taken when the send
\* started; a token removed with removeFCMToken during the send is not re-added
\* by it.
C32_AsClaimed ==
    sendLog.outcome = "returned" =>
        /\ sendLog.registered \subseteq sendLog.after
        /\ (sendLog.before \ sendLog.after) \subseteq sendLog.start
        /\ sendLog.unregistered \cap sendLog.after = {}

\* C32 (amended): a token that was not in the snapshot and is registered while
\* the multicast result is awaited (and not removed again before it arrives) is
\* still in the registry after the pruning; a snapshot token that is removed and
\* registered again meanwhile is pruned when its delivery failed. Pruning
\* deletes only failed tokens of the snapshot, and a token removed during the
\* send is not re-added by it.
C32_InFlightChangesKept ==
    sendLog.outcome = "returned" =>
        /\ (sendLog.registered \ sendLog.start) \subseteq sendLog.after
        /\ (sendLog.registered \ sendLog.failed) \subseteq sendLog.after
        /\ (sendLog.before \ sendLog.after) \subseteq (sendLog.start \cap sendLog.failed)
        /\ sendLog.unregistered \cap sendLog.after = {}

\* during one send a new token was registered, a snapshot token was removed, and
\* another snapshot token failed
C32_Witness ==
    /\ sendLog.outcome = "returned"
    /\ sendLog.registered \ sendLog.start # {}
    /\ sendLog.unregistered # {}
    /\ sendLog.failed \cap sendLog.before # {}
    /\ sendLog.registered \subseteq sendLog.after

\* C33: sendNotification returns true whenever the multicast call completes,
\* whatever successCount is, also when every token of the registry failed and
\* was pruned; it returns false only when the service is uninitialized, the
\* registry is empty, or the multicast call throws.
C33_TrueWheneverMulticastCompletes ==
    [][sendLog' # sendLog =>
          /\ sendLog'.outcome = "returned" => sendLog'.returned = TRUE
          /\ sendLog'.outcome = "threw" => (fcmPc = "sending" /\ sendLog'.returned = FALSE)
          /\ sendLog'.outcome = "skipped" =>
                /\ sendLog'.returned = FALSE
                /\ ~fcmInitialized \/ Len(fcmTokens) = 0
          /\ (sends' = sends + 1 /\ fcmInitialized /\ Len(fcmTokens) > 0) =>
                sendLog'.outcome = "sending"]_vars

\* every token of the snapshot failed and was pruned, and the call returned true
C33_Witness ==
    /\ sendLog.outcome = "returned"
    /\ sendLog.returned = TRUE
    /\ Cardinality(sendLog.start) >= 2
    /\ sendLog.failed = sendLog.start
    /\ sendLog.after = {}
    /\ fcmTokens = <<>>

(* --------------------- claims: the thread's first message ------------- *)
\* positions of the thread messages that carry the minimal internal date
MinDatePositions(thread) ==
    {i \in 1..Len(thread) :
        \A j \in 1..Len(thread) : thread[i].internalDate <= thread[j].internalDate}

\* C34: when several thread messages share the minimal internal date, the one
\* treated as the thread's first message, and skipped by the reply scan, is the
\* one that comes first in the fetched thread order.
C34_TieBrokenByArrival ==
    (rpc = "done" /\ rOriginal.thread_id /\ rFetchOk /\ rThread # <<>>) =>
        LET first == CHOOSE i \in MinDatePositions(rThread) :
                        \A j \in MinDatePositions(rThread) : i <= j IN
        /\ rFirstId = rThread[first].id
        /\ rResult = ReplyLoop(rOriginal, rThread, rThread[first].id, rDetailOk, 1)

\* three messages share the minimal date; the first fetched has the highest id
C34_Witness ==
    /\ rpc = "done"
    /\ rFetchOk
    /\ Len(rThread) = 3
    /\ Cardinality(MinDatePositions(rThread)) = 3
    /\ \A j \in 2..3 : rThread[1].id > rThread[j].id
    /\ rFirstId = rThread[1].id

\* the original is a member of the thread, with the date recorded on the candidate
OriginalInThread(original, thread) ==
    \E i \in 1..Len(thread) :
        /\ thread[i].id = original.id
        /\ thread[i].internalDate = original.internal_date

\* C35: when the original message is a member of the fetched thread with the
\* internal date recorded on the candidate, skipping the earliest thread message
\* never changes the result of checkForReply: it equals the result of a resolver
\* that skips only the original's own id.
C35_SkippingEarliestChangesNothing ==
    (/\ rpc = "done"
     /\ rOriginal.thread_id
     /\ rFetchOk
     /\ OriginalInThread(rOriginal, rThread))
        => rResult = ReplyLoop(rOriginal, rThread, rOriginal.id, rDetailOk, 1)

\* the earliest message is not the original: it comes from the manager, is dated
\* before the original and its details can be fetched; a real reply follows
C35_Witness ==
    /\ rpc = "done"
    /\ rFetchOk
    /\ OriginalInThread(rOriginal, rThread)
    /\ rFirstId # rOriginal.id
    /\ rFirstId \in rDetailOk
    /\ \E i \in 1..Len(rThread) :
          /\ rThread[i].id = rFirstId
          /\ rThread[i].from # rOriginal.from
          /\ rThread[i].internalDate < rOriginal.internal_date
    /\ rResult = TRUE

(* ------------------------ claims: the two phases ---------------------- *)
\* leave_request alerts among the alerts of a's run in progress
LeaveAlerts(a) == SelectSeq(runAlerts[a], LAMBDA alert : alert.type = "leave_request")

\* C36: runOnce is two-phase: within one call every checkForReply invocation
\* happens before the first notifyPendingLeaveRequest invocation, candidates are
\* handled strictly one at a time, and alerts are dispatched in the order in
\* which the candidates were queued.
C36_TwoPhasesInOrder ==
    /\ [](\A a \in AgentIds :
            /\ runAlerts[a] # <<>> => todo[a] = <<>>
            /\ Len(LeaveAlerts(a)) <= Len(pendingRequests[a])
            /\ \A i \in 1..Len(LeaveAlerts(a)) :
                  LeaveAlerts(a)[i] = LeaveRequestAlert(pendingRequests[a][i]))
    /\ [][\A a \in AgentIds :
             /\ Len(evalLog'[a]) > Len(evalLog[a]) =>
                   /\ Len(evalLog'[a]) = Len(evalLog[a]) + 1
                   /\ runAlerts[a] = <<>> /\ runAlerts'[a] = <<>>
             /\ Len(runAlerts'[a]) > Len(runAlerts[a]) =>
                   /\ Len(runAlerts'[a]) = Len(runAlerts[a]) + 1
                   /\ evalLog'[a] = evalLog[a]
                   /\ pendingRequests'[a] = pendingRequests[a]]_vars

\* two candidates were checked and queued against the order of their ids, then
\* alerted in the order of the queue
C36_Witness ==
    \E a \in constructed :
        /\ pc[a] = "done"
        /\ Len(evalLog[a]) = 2
        /\ \A i \in 1..2 : evalLog[a][i].called
        /\ pendingRequests[a] = <<2, 1>>
        /\ runAlerts[a] = <<LeaveRequestAlert(2), LeaveRequestAlert(1), SummaryAlert(2)>>

(* ------------------------ claims: result counters --------------------- *)
\* C37: at every point of a runOnce call notifications_sent <= pending_requests
\* <= checked_requests; when the call completes without an exception,
\* notifications_sent = pending_requests = the number of candidates queued in
\* that call, and checked_requests counts every classified candidate, those
\* already in processedRequests included.
C37_CountersOrdered ==
    \A a \in AgentIds :
        /\ results[a].notifications_sent <= results[a].pending_requests
        /\ results[a].pending_requests <= results[a].checked_requests
        /\ results[a].errors = <<>> =>
              results[a].checked_requests = Len(evalLog[a]) + Len(todo[a])
        /\ (pc[a] = "done" /\ results[a].errors = <<>>) =>
              /\ results[a].notifications_sent = results[a].pending_requests
              /\ results[a].pending_requests = Len(pendingRequests[a])
              /\ results[a].checked_requests = Len(evalLog[a])

\* the second call on an instance counted two candidates: the one the first
\* call had alerted, and a new one that it queued and alerted
C37_Witness ==
    \E a \in constructed :
        /\ runNo[a] = 2
        /\ pc[a] = "done"
        /\ results[a].errors = <<>>
        /\ results[a].checked_requests = 2
        /\ results[a].pending_requests = 1
        /\ results[a].notifications_sent = 1
        /\ \E e \in Entries(a) : e.processed /\ e.outcome = "processed"
        /\ \E e \in Entries(a) : e.outcome = "queued"

(* ------------------------ claims: a failing search -------------------- *)
\* C38: when the mailbox search fails, the failure is treated as an empty result
\* and the scan continues to its end: runOnce returns checked_requests = 0,
\* pending_requests = 0 and notifications_sent = 0, dispatches no alert and
\* leaves processedRequests unchanged.
C38_FailedSearchIsEmptyScan ==
    /\ [](\A a \in AgentIds :
            searchFailed[a] =>
                /\ pc[a] \in {"done", "exited"}
                /\ results[a] = NewResults(0)
                /\ evalLog[a] = <<>>
                /\ runAlerts[a] = <<>>)
    /\ [][\A a \in AgentIds :
             searchFailed'[a] =>
                /\ processedRequests'[a] = processedRequests[a]
                /\ alertCount'[a] = alertCount[a]
                /\ agentService'[a] = agentService[a]]_vars

\* the search failed while an overdue, unanswered request was waiting that the
\* instance had not handled
C38_Witness ==
    \E a \in constructed : \E m \in Candidates :
        /\ searchFailed[a]
        /\ pc[a] = "done"
        /\ results[a] = NewResults(0)
        /\ mailbox[m].later = <<>>
        /\ getEmailAgeHours(Email(m)) >= REPLY_TIMEOUT_HOURS
        /\ m \notin processedRequests[a]
        /\ alertCount[a][m] = 0

(* ------------------------ claims: reading the history ----------------- *)
\* C39 (as claimed): getRecentNotifications(limit) returns, for every
\* non-negative integer limit and every history length n, the last
\* min(limit, n) recorded web notifications in the order they were emitted, and
\* never more than limit records.
C39_LastLimitRecords ==
    lastDispatch.method = "getRecentNotifications" =>
        LET n == Len(webNotifications)
            limit == lastDispatch.count
            k == IF limit <= n THEN limit ELSE n IN
        /\ lastDispatch.records = SubSeq(webNotifications, n - k + 1, n)
        /\ Len(lastDispatch.records) <= limit

====
